---- MODULE Spec2Model ----
(***************************************************************************)
(* A model of the half-edge / face kernel of cairo_utils.dcel              *)
(* (HalfEdge.py, Face.py).  The heap of Python objects is three tables     *)
(* indexed by allocation order: half-edges, vertices and faces.  A         *)
(* reference is the index of the entity, None is 0.  Every method is an    *)
(* operator from heap to heap, written statement by statement from the     *)
(* source; an action applies one method call to the current heap.          *)
(***************************************************************************)
EXTENDS Integers, Sequences, FiniteSets, TLC

VARIABLES heap, pre, ret, steps

vars == <<heap, pre, ret, steps>>

\* Python's None, for every reference field.
None == 0

\* Statement sequencing: the value of v, computed once, is handed to the
\* rest of the method body F.
Bind(v, F(_)) == CHOOSE r \in {F(x) : x \in {v}} : TRUE

\* ------------------------------------------------------------------------
\* Bounds of the exploration
\* ------------------------------------------------------------------------

\* Number of method calls explored after the initial scene.
MaxSteps == 2

\* Number of geometry edits among them, in the copy-on-write specification.
MaxEdits == 1

\* Allocation caps of the three tables.
MaxHalfEdges == 24

MaxVertices == 12

MaxFaces == 4

\* ------------------------------------------------------------------------
\* Sequence helpers (Python list operations)
\* ------------------------------------------------------------------------

Range(s) == {s[i] : i \in 1..Len(s)}

InList(x, s) == x \in Range(s)

\* list.index(x): the first position holding x.
IndexOf(x, s) == CHOOSE i \in 1..Len(s) : s[i] = x /\ \A j \in 1..(i-1) : s[j] # x

\* list.remove(x): drops the first occurrence of x.
ListRemove(s, x) ==
  IF ~InList(x, s) THEN s
  ELSE LET i == IndexOf(x, s)
       IN [j \in 1..(Len(s)-1) |-> IF j < i THEN s[j] ELSE s[j+1]]

\* list.insert(i, x) with a 1-based position.
ListInsert(s, i, x) ==
  [j \in 1..(Len(s)+1) |-> IF j < i THEN s[j] ELSE IF j = i THEN x ELSE s[j-1]]

\* ------------------------------------------------------------------------
\* The heap
\* ------------------------------------------------------------------------

\* No entity yet; HalfEdge.nextIndex and Face.nextIndex are 0.
EmptyHeap == [he |-> <<>>, vt |-> <<>>, fc |-> <<>>,
              heNextIndex |-> 0, fcNextIndex |-> 0]

\* The index argument of a constructor left out (index=None); a given
\* index i is <<i>>.
NoIndex == <<>>

HalfEdgeIds(H) == 1..Len(H.he)

VertexIds(H) == 1..Len(H.vt)

FaceIds(H) == 1..Len(H.fc)

\* A face without a site; a site is <<x, y, k>>, the point (x/k, y/k).
NoSite == <<>>

\* Vertex: a location and the set of half-edges registered on it.
Vertex_init(H, loc) ==
  [H EXCEPT !.vt = Append(@, [loc |-> loc, halfEdges |-> {}])]

registerHalfEdge(H, v, e) == [H EXCEPT !.vt[v].halfEdges = @ \cup {e}]

unregisterHalfEdge(H, v, e) == [H EXCEPT !.vt[v].halfEdges = @ \ {e}]

\* dcel.newVertex(loc): a fresh vertex, returned as the last index.
newVertex(H, loc) == Vertex_init(H, loc)

\* HalfEdge.__init__(origin, twin, index): the fields as the constructor
\* sets them, the index taken from the class counter or as given, then the
\* registration with the origin vertex.
HalfEdge_init_at(H, origin, twin, index) ==
  Bind([H EXCEPT !.he = Append(@, [origin |-> origin,
                                   twin |-> twin,
                                   length_sq |-> -1,
                                   face |-> None,
                                   next |-> None,
                                   prev |-> None,
                                   index |-> IF index = NoIndex THEN H.heNextIndex
                                             ELSE index[1],
                                   markedForCleanup |-> FALSE,
                                   constrained |-> FALSE]),
                  !.heNextIndex = IF index = NoIndex THEN @ + 1
                                  ELSE IF index[1] >= @ THEN index[1] + 1 ELSE @],
       LAMBDA H1 : IF origin # None
                   THEN registerHalfEdge(H1, origin, Len(H1.he))
                   ELSE H1)

\* HalfEdge(origin, twin): the constructor without an index.
HalfEdge_init(H, origin, twin) == HalfEdge_init_at(H, origin, twin, NoIndex)

\* self.coord_list = None.
NoCoords == <<>>

\* Face.__init__(site, index).
Face_init_at(H, site, index) ==
  [H EXCEPT !.fc = Append(@, [site |-> site,
                              edgeList |-> <<>>,
                              coord_list |-> NoCoords,
                              free_vertices |-> {},
                              index |-> IF index = NoIndex THEN H.fcNextIndex
                                        ELSE index[1],
                              markedForCleanup |-> FALSE]),
            !.fcNextIndex = IF index = NoIndex THEN @ + 1
                            ELSE IF index[1] >= @ THEN index[1] + 1 ELSE @]

\* Face(site): the constructor without an index.
Face_init(H, site) == Face_init_at(H, site, NoIndex)

\* HalfEdge.markForCleanup: this half-edge only, not the twin.
markForCleanup(H, e) == [H EXCEPT !.he[e].markedForCleanup = TRUE]

\* ------------------------------------------------------------------------
\* Face.remove_edge / Face.add_edge
\* ------------------------------------------------------------------------

remove_edge(H, f, e) ==
  IF H.fc[f].edgeList = <<>> THEN H
  ELSE Bind([H EXCEPT !.fc[f].edgeList = ListRemove(@, e)], LAMBDA H1 :
       Bind(IF H1.he[e].face = f THEN [H1 EXCEPT !.he[e].face = None] ELSE H1,
            LAMBDA H2 :
              IF (IF H2.he[e].twin = None THEN TRUE
                  ELSE H2.he[H2.he[e].twin].face = None)
              THEN markForCleanup(H2, e)
              ELSE H2))

\* add_edge with the wrong flag reset at its end: constrained instead of
\* markedForCleanup.
add_edge_resets_constrained(H, f, e) ==
  IF H.he[e].face = f THEN H
  ELSE Bind(IF H.he[e].face # None THEN remove_edge(H, H.he[e].face, e) ELSE H,
            LAMBDA H1 :
       Bind([H1 EXCEPT !.fc[f].coord_list = NoCoords, !.he[e].face = f], LAMBDA H2 :
       Bind(IF InList(e, H2.fc[f].edgeList) THEN H2
            ELSE [H2 EXCEPT !.fc[f].edgeList = Append(@, e)], LAMBDA H3 :
         [H3 EXCEPT !.he[e].constrained = FALSE])))

\* Face.add_edge(edge).
add_edge(H, f, e) ==
  IF H.he[e].face = f THEN H
  ELSE Bind(IF H.he[e].face # None THEN remove_edge(H, H.he[e].face, e) ELSE H,
            LAMBDA H1 :
       Bind([H1 EXCEPT !.fc[f].coord_list = NoCoords, !.he[e].face = f], LAMBDA H2 :
       Bind(IF InList(e, H2.fc[f].edgeList) THEN H2
            ELSE [H2 EXCEPT !.fc[f].edgeList = Append(@, e)], LAMBDA H3 :
         [H3 EXCEPT !.he[e].markedForCleanup = FALSE])))

\* dcel.newEdge(originVertex, twinVertex, face, twinFace): a half-edge pair,
\* each the other's twin, added to the faces given.  The new half-edge is
\* index Len(H.he)+1 and its twin Len(H.he)+2.
newEdge(H, v1, v2, face, twinFace) ==
  Bind(HalfEdge_init(H, v1, None), LAMBDA H1 :
  Bind(HalfEdge_init(H1, v2, Len(H1.he)), LAMBDA H2 :
  Bind([H2 EXCEPT !.he[Len(H2.he) - 1].twin = Len(H2.he)], LAMBDA H3 :
  Bind(IF face # None THEN add_edge(H3, face, Len(H3.he) - 1) ELSE H3,
       LAMBDA H4 :
    IF twinFace # None THEN add_edge(H4, twinFace, Len(H4.he)) ELSE H4))))

\* dcel.createEdge(origin, end): two fresh vertices and the pair between them.
createEdge(H, p1, p2) ==
  Bind(newVertex(H, p1), LAMBDA H1 :
  Bind(newVertex(H1, p2), LAMBDA H2 :
    newEdge(H2, Len(H2.vt) - 1, Len(H2.vt), None, None)))

\* dcel.newFace(): a fresh face without a site.
newFace(H) == Face_init(H, NoSite)

\* ------------------------------------------------------------------------
\* Geometry on integer coordinates
\* ------------------------------------------------------------------------

\* math.get_distance_raw: the squared distance of two points.
get_distance_raw(a, b) ==
  (a[1] - b[1]) * (a[1] - b[1]) + (a[2] - b[2]) * (a[2] - b[2])

\* Vertex.toArray of a half-edge's two ends (HalfEdge.toArray).
toArray(H, e) == <<H.vt[H.he[e].origin].loc, H.vt[H.he[H.he[e].twin].origin].loc>>

\* ------------------------------------------------------------------------
\* HalfEdge: vertex access
\* ------------------------------------------------------------------------

\* HalfEdge.isInfinite.
isInfinite(H, e) ==
  IF H.he[e].origin = None \/ H.he[e].twin = None THEN TRUE
  ELSE H.he[H.he[e].twin].origin = None

\* addVertex without the final raise: a full edge is taken as having a
\* free slot.
addVertex_ok_no_raise(H, e) ==
  IF H.he[e].origin = None THEN TRUE
  ELSE H.he[e].twin # None

\* HalfEdge.addVertex raises on a full edge (and on a missing twin when the
\* origin is taken): the condition under which it returns normally.
addVertex_ok(H, e) ==
  IF H.he[e].origin = None THEN TRUE
  ELSE IF H.he[e].twin = None THEN FALSE
  ELSE H.he[H.he[e].twin].origin = None

addVertex(H, e, vertex) ==
  IF H.he[e].origin = None
  THEN registerHalfEdge([H EXCEPT !.he[e].origin = vertex], vertex, e)
  ELSE registerHalfEdge([H EXCEPT !.he[H.he[e].twin].origin = vertex],
                        vertex, H.he[e].twin)

clearVertices(H, e) ==
  LET v1 == H.he[e].origin
      t  == H.he[e].twin
      v2 == IF t # None THEN H.he[t].origin ELSE None
  IN Bind([H EXCEPT !.he[e].origin = None], LAMBDA H1 :
     Bind(IF t # None THEN [H1 EXCEPT !.he[t].origin = None] ELSE H1, LAMBDA H2 :
     Bind(IF v1 # None THEN unregisterHalfEdge(H2, v1, e) ELSE H2, LAMBDA H3 :
       IF v2 # None THEN unregisterHalfEdge(H3, v2, t) ELSE H3)))

\* HalfEdge.replaceVertex: requires an origin to unregister from.
replaceVertex(H, e, newVert) ==
  Bind(unregisterHalfEdge(H, H.he[e].origin, e), LAMBDA H1 :
  Bind([H1 EXCEPT !.he[e].origin = newVert], LAMBDA H2 :
    registerHalfEdge(H2, newVert, e)))

\* HalfEdge.getLength_sq(force): returns the cache unless forced or unset.
getLength_sq(H, e, force) ==
  IF ~force /\ H.he[e].length_sq # -1 THEN H
  ELSE [H EXCEPT !.he[e].length_sq =
                    get_distance_raw(toArray(H, e)[1], toArray(H, e)[2])]

\* ------------------------------------------------------------------------
\* HalfEdge: edge sequencing
\* ------------------------------------------------------------------------

\* The assertions of the unforced addNext / addPrev.
addNext_ok(H, e, nextEdge, force) ==
  IF force THEN TRUE
  ELSE IF H.he[e].next # None THEN FALSE
  ELSE IF nextEdge = None THEN TRUE
  ELSE H.he[nextEdge].prev = None

addPrev_ok(H, e, prevEdge, force) ==
  IF force THEN TRUE
  ELSE IF H.he[e].prev # None THEN FALSE
  ELSE IF prevEdge = None THEN TRUE
  ELSE H.he[prevEdge].next = None

addNext(H, e, nextEdge) ==
  Bind(IF H.he[e].next # None THEN [H EXCEPT !.he[H.he[e].next].prev = None]
       ELSE H, LAMBDA H1 :
  Bind([H1 EXCEPT !.he[e].next = nextEdge], LAMBDA H2 :
    IF nextEdge # None THEN [H2 EXCEPT !.he[nextEdge].prev = e] ELSE H2))

addPrev(H, e, prevEdge) ==
  Bind(IF H.he[e].prev # None THEN [H EXCEPT !.he[H.he[e].prev].next = None]
       ELSE H, LAMBDA H1 :
  Bind([H1 EXCEPT !.he[e].prev = prevEdge], LAMBDA H2 :
    IF prevEdge # None THEN [H2 EXCEPT !.he[prevEdge].next = e] ELSE H2))

\* ------------------------------------------------------------------------
\* HalfEdge.swapFaces
\* ------------------------------------------------------------------------

swapFaces_ok(H, e) ==
  IF H.he[e].face = None THEN FALSE ELSE H.he[e].twin # None

swapFaces(H, e) ==
  LET originFace == H.he[e].face
      t == H.he[e].twin
      twinFace == H.he[t].face
  IN Bind(remove_edge(H, originFace, e), LAMBDA H1 :
     Bind(IF twinFace # None THEN remove_edge(H1, twinFace, t) ELSE H1,
          LAMBDA H2 :
     Bind(IF twinFace # None THEN add_edge(H2, twinFace, e) ELSE H2,
          LAMBDA H3 :
       add_edge(H3, originFace, t))))

\* ------------------------------------------------------------------------
\* HalfEdge.split
\* ------------------------------------------------------------------------

\* split reads self.origin, self.twin.origin and, for the twin's length,
\* self.twin.twin.origin: both half-edges are full.
split_ok(H, e) ==
  IF isInfinite(H, e) THEN FALSE ELSE ~isInfinite(H, H.he[e].twin)

\* split with the rewiring of the twin left out (self.twin.origin = newPoint
\* forgotten): self.twin still starts at the old far endpoint.
split_at_twin_kept(H, e, newPoint, face_update) ==
  LET t == H.he[e].twin
      end == H.he[t].origin
      newE == Len(H.he) + 1
      newT == Len(H.he) + 2
  IN Bind(newEdge(H, newPoint, end, None, None), LAMBDA H1 :
     Bind(H1, LAMBDA H2 :
     \* update registrations
     Bind(unregisterHalfEdge(H2, end, e), LAMBDA H3 :
     Bind(registerHalfEdge(H3, newPoint, e), LAMBDA H4 :
     Bind(registerHalfEdge(H4, newPoint, t), LAMBDA H5 :
     Bind(unregisterHalfEdge(H5, end, t), LAMBDA H6 :
     Bind(registerHalfEdge(H6, end, newT), LAMBDA H7 :
     \* recalculate length
     Bind(getLength_sq(H7, e, TRUE), LAMBDA H8 :
     Bind(getLength_sq(H8, t, TRUE), LAMBDA H9 :
     \* insert into next/prev ordering
     Bind(addNext(H9, newE, H9.he[e].next), LAMBDA H10 :
     Bind(addPrev(H10, newT, H10.he[t].prev), LAMBDA H11 :
     Bind(addNext(H11, e, newE), LAMBDA H12 :
     Bind(addNext(H12, newT, t), LAMBDA H13 :
     \* update faces
     Bind(IF face_update /\ H13.he[e].face # None
          THEN add_edge(H13, H13.he[e].face, newE) ELSE H13, LAMBDA H14 :
       IF face_update /\ H14.he[t].face # None
       THEN add_edge(H14, H14.he[t].face, newT) ELSE H14))))))))))))))

\* The body of split once newPoint is determined (a vertex passed in, or the
\* vertex created for a coordinate pair).
split_at(H, e, newPoint, face_update) ==
  LET t == H.he[e].twin
      end == H.he[t].origin
      newE == Len(H.he) + 1
      newT == Len(H.he) + 2
  IN Bind(newEdge(H, newPoint, end, None, None), LAMBDA H1 :
     \* update the twin
     Bind([H1 EXCEPT !.he[t].origin = newPoint], LAMBDA H2 :
     \* update registrations
     Bind(unregisterHalfEdge(H2, end, e), LAMBDA H3 :
     Bind(registerHalfEdge(H3, newPoint, e), LAMBDA H4 :
     Bind(registerHalfEdge(H4, newPoint, t), LAMBDA H5 :
     Bind(unregisterHalfEdge(H5, end, t), LAMBDA H6 :
     Bind(registerHalfEdge(H6, end, newT), LAMBDA H7 :
     \* recalculate length
     Bind(getLength_sq(H7, e, TRUE), LAMBDA H8 :
     Bind(getLength_sq(H8, t, TRUE), LAMBDA H9 :
     \* insert into next/prev ordering
     Bind(addNext(H9, newE, H9.he[e].next), LAMBDA H10 :
     Bind(addPrev(H10, newT, H10.he[t].prev), LAMBDA H11 :
     Bind(addNext(H11, e, newE), LAMBDA H12 :
     Bind(addNext(H12, newT, t), LAMBDA H13 :
     \* update faces
     Bind(IF face_update /\ H13.he[e].face # None
          THEN add_edge(H13, H13.he[e].face, newE) ELSE H13, LAMBDA H14 :
       IF face_update /\ H14.he[t].face # None
       THEN add_edge(H14, H14.he[t].face, newT) ELSE H14))))))))))))))

\* split(loc): loc is a vertex (loc.isVertex) or a coordinate pair.
split(H, e, loc, face_update) ==
  IF loc.isVertex THEN split_at(H, e, loc.vertex, face_update)
  ELSE Bind(newVertex(H, loc.point), LAMBDA H1 :
         split_at(H1, e, Len(H1.vt), face_update))

\* The pair split returns: (newPoint, newEdge).
split_newPoint(H, loc) == IF loc.isVertex THEN loc.vertex ELSE Len(H.vt) + 1

split_newEdge(H) == Len(H.he) + 1

\* ------------------------------------------------------------------------
\* has_constraints
\* ------------------------------------------------------------------------

\* A candidate set holds half-edges and faces: [he |-> ..., fc |-> ...].
NoCandidates == [he |-> {}, fc |-> {}]

\* Vertex.has_constraints(candidateSet): some registered half-edge is not a
\* candidate.
Vertex_has_constraints(H, v, cands) == H.vt[v].halfEdges \ cands.he # {}

\* has_constraints with the twin left out of the half-edges taken as the
\* edit's own.
has_constraints_twin_not_own(H, e, candidateSet) ==
  LET t == H.he[e].twin
      candidatesPlusSelf ==
        [candidateSet EXCEPT !.he = @ \cup {e}]
      c1 == H.he[e].face # None /\ H.he[e].face \notin candidatesPlusSelf.fc
      c2 == IF H.he[e].origin # None
            THEN c1 \/ Vertex_has_constraints(H, H.he[e].origin, candidatesPlusSelf)
            ELSE c1
      c3 == IF t # None /\ H.he[t].face # None
            THEN c2 \/ H.he[t].face \notin candidatesPlusSelf.fc
            ELSE c2
  IN IF t # None /\ H.he[t].origin # None
     THEN c3 \/ Vertex_has_constraints(H, H.he[t].origin, candidatesPlusSelf)
     ELSE c3

\* HalfEdge.has_constraints(candidateSet).
HalfEdge_has_constraints(H, e, candidateSet) ==
  LET t == H.he[e].twin
      candidatesPlusSelf ==
        IF t # None THEN [candidateSet EXCEPT !.he = @ \cup {e, t}]
        ELSE [candidateSet EXCEPT !.he = @ \cup {e}]
      c1 == H.he[e].face # None /\ H.he[e].face \notin candidatesPlusSelf.fc
      c2 == IF H.he[e].origin # None
            THEN c1 \/ Vertex_has_constraints(H, H.he[e].origin, candidatesPlusSelf)
            ELSE c1
      c3 == IF t # None /\ H.he[t].face # None
            THEN c2 \/ H.he[t].face \notin candidatesPlusSelf.fc
            ELSE c2
  IN IF t # None /\ H.he[t].origin # None
     THEN c3 \/ Vertex_has_constraints(H, H.he[t].origin, candidatesPlusSelf)
     ELSE c3

\* Face.has_constraints(candidateSet).
Face_has_constraints(H, f, candidateSet) ==
  LET el == H.fc[f].edgeList
      candidatesPlusSelf ==
        [he |-> candidateSet.he \cup Range(el)
                  \cup {H.he[x].twin : x \in {y \in Range(el) : H.he[y].twin # None}},
         fc |-> candidateSet.fc \cup {f}]
  IN \E x \in Range(el) : HalfEdge_has_constraints(H, x, candidatesPlusSelf)


\* HalfEdge.isConstrained(), on a half-edge with a twin.
isConstrained(H, e) == H.he[e].constrained \/ H.he[H.he[e].twin].constrained

\* HalfEdge.setConstrained(), on a half-edge with a twin: both halves of
\* the edge are flagged.
setConstrained(H, e) ==
  Bind([H EXCEPT !.he[e].constrained = TRUE], LAMBDA H1 :
    [H1 EXCEPT !.he[H1.he[e].twin].constrained = TRUE])
\* ------------------------------------------------------------------------
\* Initial scenes: heaps built by the calls named, from an empty DCEL
\* ------------------------------------------------------------------------

P00 == <<0, 0>>

P20 == <<2, 0>>

P40 == <<4, 0>>

P22 == <<2, 2>>

\* e = dcel.HalfEdge(): no origin, no twin, no face.
SceneBare == HalfEdge_init(EmptyHeap, None, None)

\* e = dc.createEdge((0,0), (2,0)).
SceneEdge == createEdge(EmptyHeap, P00, P20)

\* v1, v2 = dc.newVertex(..); e = dc.newEdge(v1, v2); e2 = dc.newEdge(v1, v2)
\* (test_halfedge_has_constraints_true_dualEdge).
SceneDual ==
  Bind(newVertex(EmptyHeap, P00), LAMBDA H1 :
  Bind(newVertex(H1, P20), LAMBDA H2 :
  Bind(newEdge(H2, 1, 2, None, None), LAMBDA H3 :
    newEdge(H3, 1, 2, None, None))))

\* f = dc.newFace(); g = dc.newFace(); e = dc.newEdge(v1, v2, face=f, twinFace=g);
\* e2 = dc.newEdge(v2, v3, face=f, twinFace=g); e.addNext(e2); e2.twin.addNext(e.twin).
SceneChain ==
  Bind(newVertex(EmptyHeap, P00), LAMBDA H1 :
  Bind(newVertex(H1, P20), LAMBDA H2 :
  Bind(newVertex(H2, P40), LAMBDA H3 :
  Bind(newFace(H3), LAMBDA H4 :
  Bind(newFace(H4), LAMBDA H5 :
  Bind(newEdge(H5, 1, 2, 1, 2), LAMBDA H6 :
  Bind(newEdge(H6, 2, 3, 1, 2), LAMBDA H7 :
  Bind(addNext(H7, 1, 3), LAMBDA H8 :
    addNext(H8, 4, 2)))))))))

Scenes == {EmptyHeap, SceneEdge, SceneDual, SceneChain}

P44 == <<4, 4>>

P04 == <<0, 4>>

\* A square face, counter-clockwise: f = dc.newFace(); the four edges
\* dc.newEdge(v_i, v_i+1, face=f); then the boundary linked into a loop with
\* addNext, the twins into the opposite loop.  Boundary half-edges are
\* 1, 3, 5, 7, their twins 2, 4, 6, 8.
SceneSquare ==
  Bind(newVertex(EmptyHeap, P00), LAMBDA H1 :
  Bind(newVertex(H1, P40), LAMBDA H2 :
  Bind(newVertex(H2, P44), LAMBDA H3 :
  Bind(newVertex(H3, P04), LAMBDA H4 :
  Bind(newFace(H4), LAMBDA H5 :
  Bind(newEdge(H5, 1, 2, 1, None), LAMBDA H6 :
  Bind(newEdge(H6, 2, 3, 1, None), LAMBDA H7 :
  Bind(newEdge(H7, 3, 4, 1, None), LAMBDA H8 :
  Bind(newEdge(H8, 4, 1, 1, None), LAMBDA H9 :
  Bind(addNext(H9, 1, 3), LAMBDA H10 :
  Bind(addNext(H10, 3, 5), LAMBDA H11 :
  Bind(addNext(H11, 5, 7), LAMBDA H12 :
  Bind(addNext(H12, 7, 1), LAMBDA H13 :
  Bind(addNext(H13, 2, 8), LAMBDA H14 :
  Bind(addNext(H14, 8, 6), LAMBDA H15 :
  Bind(addNext(H15, 6, 4), LAMBDA H16 :
    addNext(H16, 4, 2)))))))))))))))))



P11 == <<1, 1>>

\* he = dcel.HalfEdge(); e = dcel.HalfEdge(twin=he); v1 = dcel.Vertex((0,0));
\* v2 = dcel.Vertex((1,1)) (test_vertices).  he is 1, e is 2.
SceneTwins ==
  Bind(HalfEdge_init(EmptyHeap, None, None), LAMBDA H1 :
  Bind(HalfEdge_init(H1, None, 1), LAMBDA H2 :
  Bind(Vertex_init(H2, P00), LAMBDA H3 :
    Vertex_init(H3, P11))))

\* f1 = dcel.Face(); f2 = dcel.Face(site=(1,1)); he = dcel.HalfEdge();
\* e = dcel.HalfEdge(twin=he); e.face = f1; he.face = f2 (test_faceSwap).
\* he is 1, e is 2; the boundary lists stay empty.
SceneFaceSwap ==
  Bind(Face_init(EmptyHeap, NoSite), LAMBDA H1 :
  Bind(Face_init(H1, <<1, 1, 1>>), LAMBDA H2 :
  Bind(HalfEdge_init(H2, None, None), LAMBDA H3 :
  Bind(HalfEdge_init(H3, None, 1), LAMBDA H4 :
    [H4 EXCEPT !.he[2].face = 1, !.he[1].face = 2]))))

\* The same with he.face left unset: e has a face, its twin none.
SceneFaceOne == [SceneFaceSwap EXCEPT !.he[1].face = None]
\* ------------------------------------------------------------------------
\* The record of the last call: its name, target, arguments and results
\* ------------------------------------------------------------------------

Call(op, self, arg, pt, force, cands, result, result2, tag, flag) ==
  [op |-> op, self |-> self, arg |-> arg, pt |-> pt, force |-> force,
   cands |-> cands, result |-> result, result2 |-> result2, tag |-> tag,
   flag |-> flag]

NoCall == Call("init", None, None, P00, FALSE, NoCandidates, None, None, "", FALSE)

\* The tables of H are within the allocation caps.
WithinCaps(H) ==
  /\ Len(H.he) <= MaxHalfEdges
  /\ Len(H.vt) <= MaxVertices
  /\ Len(H.fc) <= MaxFaces

\* A call returns: H becomes the heap, the heap before is kept in pre and
\* the call in ret.  Calls that would allocate past the caps are not explored.
Returns(H, c) ==
  /\ steps < MaxSteps
  /\ \E h \in {H} : WithinCaps(h) /\ heap' = h
  /\ pre' = heap
  /\ ret' = c
  /\ steps' = steps + 1

Init ==
  /\ heap \in Scenes
  /\ pre = heap
  /\ ret = NoCall
  /\ steps = 0

\* Points a call may be given.
Points == {P00, P20, P22}

\* ------------------------------------------------------------------------
\* Actions: construction
\* ------------------------------------------------------------------------

\* HalfEdge(origin=o, twin=t), the bare constructor.
NewHalfEdge ==
  /\ Len(heap.he) < MaxHalfEdges
  /\ \E o \in {None} \cup VertexIds(heap), t \in {None} \cup HalfEdgeIds(heap) :
       Returns(HalfEdge_init(heap, o, t),
               Call("HalfEdge", None, t, P00, FALSE, NoCandidates,
                    Len(heap.he) + 1, o, "", FALSE))

\* dc.newVertex(p).
NewVertex ==
  /\ Len(heap.vt) < MaxVertices
  /\ \E p \in Points :
       Returns(newVertex(heap, p),
               Call("newVertex", None, None, p, FALSE, NoCandidates,
                    Len(heap.vt) + 1, None, "", FALSE))

\* dc.newEdge(v1, v2).
NewEdge ==
  /\ Len(heap.he) + 2 <= MaxHalfEdges
  /\ \E v1, v2 \in VertexIds(heap) :
       Returns(newEdge(heap, v1, v2, None, None),
               Call("newEdge", None, None, P00, FALSE, NoCandidates,
                    Len(heap.he) + 1, None, "", FALSE))

\* dc.newFace().
NewFace ==
  /\ Len(heap.fc) < MaxFaces
  /\ Returns(newFace(heap),
             Call("newFace", None, None, P00, FALSE, NoCandidates,
                  Len(heap.fc) + 1, None, "", FALSE))

\* ------------------------------------------------------------------------
\* Actions: vertex access
\* ------------------------------------------------------------------------

\* e.addVertex(v): raises on a full edge, leaving everything as it was.
AddVertex ==
  \E e \in HalfEdgeIds(heap), v \in VertexIds(heap) :
    IF addVertex_ok(heap, e)
    THEN Returns(addVertex(heap, e, v),
                 Call("addVertex", e, v, P00, FALSE, NoCandidates, None, None, "", FALSE))
    ELSE Returns(heap,
                 Call("addVertex", e, v, P00, FALSE, NoCandidates, None, None, "ERROR", FALSE))

ClearVertices ==
  \E e \in HalfEdgeIds(heap) :
    Returns(clearVertices(heap, e),
            Call("clearVertices", e, None, P00, FALSE, NoCandidates, None, None, "", FALSE))

ReplaceVertex ==
  \E e \in HalfEdgeIds(heap), v \in VertexIds(heap) :
    /\ heap.he[e].origin # None
    /\ Returns(replaceVertex(heap, e, v),
               Call("replaceVertex", e, v, P00, FALSE, NoCandidates, None, None, "", FALSE))

\* ------------------------------------------------------------------------
\* Actions: sequencing
\* ------------------------------------------------------------------------

AddNext ==
  \E e \in HalfEdgeIds(heap), n \in {None} \cup HalfEdgeIds(heap), force \in BOOLEAN :
    /\ addNext_ok(heap, e, n, force)
    /\ Returns(addNext(heap, e, n),
               Call("addNext", e, n, P00, force, NoCandidates, None, None, "", FALSE))

AddPrev ==
  \E e \in HalfEdgeIds(heap), p \in {None} \cup HalfEdgeIds(heap), force \in BOOLEAN :
    /\ addPrev_ok(heap, e, p, force)
    /\ Returns(addPrev(heap, e, p),
               Call("addPrev", e, p, P00, force, NoCandidates, None, None, "", FALSE))

\* ------------------------------------------------------------------------
\* Actions: split
\* ------------------------------------------------------------------------

P10 == <<1, 0>>

SplitLocs(H) ==
  {[isVertex |-> FALSE, vertex |-> None, point |-> p] : p \in {P10, P22}}
    \cup {[isVertex |-> TRUE, vertex |-> v, point |-> H.vt[v].loc] : v \in VertexIds(H)}

\* (newPoint, newEdge) = e.split(loc, face_update=fu).
Split ==
  /\ Len(heap.he) + 2 <= MaxHalfEdges
  /\ Len(heap.vt) < MaxVertices
  /\ \E e \in HalfEdgeIds(heap), loc \in SplitLocs(heap), fu \in BOOLEAN :
       /\ split_ok(heap, e)
       /\ Returns(split(heap, e, loc, fu),
                  Call("split", e, loc.vertex, loc.point, fu, NoCandidates,
                       split_newPoint(heap, loc), split_newEdge(heap), "", loc.isVertex))

\* ------------------------------------------------------------------------
\* Actions: face membership
\* ------------------------------------------------------------------------

AddEdge ==
  \E f \in FaceIds(heap), e \in HalfEdgeIds(heap) :
    Returns(add_edge(heap, f, e),
            Call("add_edge", f, e, P00, FALSE, NoCandidates, None, None, "", FALSE))

RemoveEdge ==
  \E f \in FaceIds(heap), e \in HalfEdgeIds(heap) :
    Returns(remove_edge(heap, f, e),
            Call("remove_edge", f, e, P00, FALSE, NoCandidates, None, None, "", FALSE))

SwapFaces ==
  \E e \in HalfEdgeIds(heap) :
    /\ swapFaces_ok(heap, e)
    /\ Returns(swapFaces(heap, e),
               Call("swapFaces", e, None, P00, FALSE, NoCandidates, None, None, "", FALSE))

\* ------------------------------------------------------------------------
\* Geometry of the edits, on the integer grid
\* ------------------------------------------------------------------------

cross(a, b) == a[1] * b[2] - a[2] * b[1]

Minus(a, b) == <<a[1] - b[1], a[2] - b[2]>>

\* Vertex.translate(target, abs=True, force=True): the vertex itself moves.
Vertex_translate(H, v, target) == [H EXCEPT !.vt[v].loc = target]

\* Vertex.copy(): a fresh vertex at the same location.
Vertex_copy(H, v) == newVertex(H, H.vt[v].loc)

\* math.rotatePoint(p, cen, rads) for rads a number q of quarter turns,
\* counter-clockwise: (3,0) about (2,0) by 90 degrees is (2,1).
rotatePoint(p, cen, q) ==
  LET x == p[1] - cen[1]
      y == p[2] - cen[2]
  IN CASE q % 4 = 0 -> p
       [] q % 4 = 1 -> <<cen[1] - y, cen[2] + x>>
       [] q % 4 = 2 -> <<cen[1] - x, cen[2] - y>>
       [] q % 4 = 3 -> <<cen[1] + y, cen[2] - x>>

\* math.inCircle(centre, radius, point): an endpoint on the circle counts as
\* inside (test_halfedge_constrain_to_circle_no_op).
inCircle(centre, radius, p) == get_distance_raw(centre, p) <= radius * radius

\* HalfEdge.within_circle: the flag of each end.
within_circle(H, e, centre, radius) ==
  <<inCircle(centre, radius, toArray(H, e)[1]),
    inCircle(centre, radius, toArray(H, e)[2])>>

\* Grid points of the closed segment a-b.
SegmentPoints(a, b) ==
  LET lo(u, v) == IF u < v THEN u ELSE v
      hi(u, v) == IF u < v THEN v ELSE u
  IN {p \in (lo(a[1], b[1])..hi(a[1], b[1])) \X (lo(a[2], b[2])..hi(a[2], b[2])) :
        cross(Minus(b, a), Minus(p, a)) = 0}

\* Line.intersect_with_circle, narrowed to the crossing the edit uses: the
\* points of the segment closer-further that lie on the circle.
intersect_with_circle(closer, further, centre, radius) ==
  {p \in SegmentPoints(closer, further) :
     get_distance_raw(centre, p) = radius * radius}

\* HalfEdge.getCloserAndFurther(centre): the two end vertices, nearer first.
getCloserAndFurther(H, e, centre) ==
  LET o == H.he[e].origin
      d == H.he[H.he[e].twin].origin
  IN IF get_distance_raw(centre, H.vt[o].loc) < get_distance_raw(centre, H.vt[d].loc)
     THEN <<o, d>>
     ELSE <<d, o>>

\* A bounding box is <<min_x, min_y, max_x, max_y>>.
\* Vertex.within(bbox) and Vertex.outside(bbox).
Vertex_within(H, v, bbox) ==
  /\ bbox[1] <= H.vt[v].loc[1] /\ H.vt[v].loc[1] <= bbox[3]
  /\ bbox[2] <= H.vt[v].loc[2] /\ H.vt[v].loc[2] <= bbox[4]

Vertex_outside(H, v, bbox) == ~Vertex_within(H, v, bbox)

\* HalfEdge.within(bbox) / HalfEdge.outside(bbox), on a full edge.
HalfEdge_within(H, e, bbox) ==
  Vertex_within(H, H.he[e].origin, bbox)
    /\ Vertex_within(H, H.he[H.he[e].twin].origin, bbox)

HalfEdge_outside(H, e, bbox) ==
  Vertex_outside(H, H.he[e].origin, bbox)
    /\ Vertex_outside(H, H.he[H.he[e].twin].origin, bbox)

\* math.bbox_to_lines(bbox): the four sides, each with its label.
bbox_to_lines(bbox) ==
  << [line |-> <<<<bbox[1], bbox[2]>>, <<bbox[3], bbox[2]>>>>, side |-> "HBOTTOM"],
     [line |-> <<<<bbox[1], bbox[4]>>, <<bbox[3], bbox[4]>>>>, side |-> "HTOP"],
     [line |-> <<<<bbox[1], bbox[2]>>, <<bbox[1], bbox[4]>>>>, side |-> "VLEFT"],
     [line |-> <<<<bbox[3], bbox[2]>>, <<bbox[3], bbox[4]>>>>, side |-> "VRIGHT"] >>

\* math.intersect(s1, s2): the point two segments share, as <<point>>, or
\* <<>> for None.  Parallel segments give None.  With r and s the two
\* directions, the segments meet where s1[1] + (tn/den) r = s2[1] + (un/den) s
\* with both ratios in [0, 1].
intersect(s1, s2) ==
  LET r == Minus(s1[2], s1[1])
      s == Minus(s2[2], s2[1])
      sign == IF cross(r, s) < 0 THEN -1 ELSE 1
      den == sign * cross(r, s)
      tn == sign * cross(Minus(s2[1], s1[1]), s)
      un == sign * cross(Minus(s2[1], s1[1]), r)
  IN IF den = 0 THEN <<>>
     ELSE IF 0 <= tn /\ tn <= den /\ 0 <= un /\ un <= den
          THEN << <<s1[1][1] + (r[1] * tn) \div den, s1[1][2] + (r[2] * tn) \div den>> >>
          ELSE <<>>

\* The crossing of s1 and s2, when there is one, is a point of the grid.
intersect_on_grid(s1, s2) ==
  LET r == Minus(s1[2], s1[1])
      s == Minus(s2[2], s2[1])
      sign == IF cross(r, s) < 0 THEN -1 ELSE 1
      den == sign * cross(r, s)
      tn == sign * cross(Minus(s2[1], s1[1]), s)
  IN intersect(s1, s2) # <<>> => ((r[1] * tn) % den = 0 /\ (r[2] * tn) % den = 0)

\* HalfEdge.intersects_bbox(bbox): the crossings with the four sides, in the
\* order of the sides, each with the side's label.
RECURSIVE intersects_from(_, _, _)
intersects_from(seg, lines, i) ==
  IF i > Len(lines) THEN <<>>
  ELSE LET x == intersect(seg, lines[i].line)
       IN (IF x = <<>> THEN <<>> ELSE <<[point |-> x[1], side |-> lines[i].side]>>)
            \o intersects_from(seg, lines, i + 1)

intersects_bbox(H, e, bbox) == intersects_from(toArray(H, e), bbox_to_lines(bbox), 1)

\* The circle meets the edge where the model can tell: no end lies on the
\* circle itself, and the crossing of a straddling edge is a grid point.
circle_on_grid(H, e, centre, radius) ==
  /\ get_distance_raw(centre, toArray(H, e)[1]) # radius * radius
  /\ get_distance_raw(centre, toArray(H, e)[2]) # radius * radius
  /\ (within_circle(H, e, centre, radius)[1] # within_circle(H, e, centre, radius)[2])
       => intersect_with_circle(toArray(H, e)[1], toArray(H, e)[2], centre, radius) # {}

\* No end of the edge lies on a side line of the box, and every crossing
\* with a side is a grid point.
bbox_on_grid(H, e, bbox) ==
  /\ \A p \in {toArray(H, e)[1], toArray(H, e)[2]} :
       p[1] \notin {bbox[1], bbox[3]} /\ p[2] \notin {bbox[2], bbox[4]}
  /\ \A i \in 1..4 : intersect_on_grid(toArray(H, e), bbox_to_lines(bbox)[i].line)

\* ------------------------------------------------------------------------
\* HalfEdge edits under the copy-on-write protocol
\* ------------------------------------------------------------------------

\* What an edit hands back: the heap after it, the entity returned and the
\* EditE tag; "ERROR" stands for a raised exception, H then being the heap
\* at the raise.
Out(H, result, tag) == [H |-> H, result |-> result, tag |-> tag]

\* HalfEdge.copy(): copies of both end vertices and a new pair between them;
\* the copy is the half-edge before last of the heap returned.
HalfEdge_copy(H, e) ==
  Bind(Vertex_copy(H, H.he[e].origin), LAMBDA H1 :
  Bind(Vertex_copy(H1, H1.he[H1.he[e].twin].origin), LAMBDA H2 :
    newEdge(H2, Len(H2.vt) - 1, Len(H2.vt), None, None)))

\* The two target points of translate: the ends moved by dir * d, or dir
\* itself when abs.
translate_target(H, e, dir, d, abs) ==
  IF abs THEN dir
  ELSE << <<toArray(H, e)[1][1] + dir[1] * d, toArray(H, e)[1][2] + dir[2] * d>>,
          <<toArray(H, e)[2][1] + dir[1] * d, toArray(H, e)[2][2] + dir[2] * d>> >>

\* HalfEdge.translate(dir, d, abs, candidates, force).
HalfEdge_translate(H, e, dir, d, abs, candidates, force) ==
  LET target == translate_target(H, e, dir, d, abs)
  IN IF ~force /\ HalfEdge_has_constraints(H, e, candidates)
     THEN Bind(createEdge(H, target[1], target[2]), LAMBDA H1 :
            Out(H1, Len(H1.he) - 1, "NEW"))
     ELSE Bind(Vertex_translate(H, H.he[e].origin, target[1]), LAMBDA H1 :
          Bind(Vertex_translate(H1, H1.he[H1.he[e].twin].origin, target[2]),
               LAMBDA H2 : Out(H2, e, "MODIFIED")))

\* HalfEdge.rotate(c, r, candidates, force), r in quarter turns.
HalfEdge_rotate(H, e, c, r, candidates, force) ==
  LET rotatedCoords == <<rotatePoint(toArray(H, e)[1], c, r),
                         rotatePoint(toArray(H, e)[2], c, r)>>
  IN IF ~force /\ HalfEdge_has_constraints(H, e, candidates)
     THEN Bind(createEdge(H, rotatedCoords[1], rotatedCoords[2]), LAMBDA H1 :
            Out(H1, Len(H1.he) - 1, "NEW"))
     ELSE Bind(Vertex_translate(H, H.he[e].origin, rotatedCoords[1]), LAMBDA H1 :
          Bind(Vertex_translate(H1, H1.he[H1.he[e].twin].origin, rotatedCoords[2]),
               LAMBDA H2 : Out(H2, e, "MODIFIED")))

\* constrain_to_circle with the in-place branch moving the nearer end
\* instead of the further one.
constrain_to_circle_moves_closer(H, e, centre, radius, candidates, force) ==
  LET results == within_circle(H, e, centre, radius)
      closer == getCloserAndFurther(H, e, centre)[1]
      further == getCloserAndFurther(H, e, centre)[2]
      intersections == intersect_with_circle(H.vt[closer].loc, H.vt[further].loc,
                                             centre, radius)
      closest == CHOOSE p \in intersections : \A q \in intersections :
                   get_distance_raw(H.vt[further].loc, p)
                     <= get_distance_raw(H.vt[further].loc, q)
  IN IF results[1] /\ results[2] THEN Out(H, e, "MODIFIED")
     ELSE IF ~results[1] /\ ~results[2] THEN Out(markForCleanup(H, e), e, "MODIFIED")
     ELSE IF ~force /\ HalfEdge_has_constraints(H, e, candidates)
     THEN Bind(newVertex(H, closest), LAMBDA H1 :
          Bind(HalfEdge_copy(H1, e), LAMBDA H2 :
          Bind(markForCleanup(H2, e), LAMBDA H3 :
            IF further = H.he[e].origin
            THEN Out(replaceVertex(H3, Len(H2.he) - 1, Len(H1.vt)),
                     Len(H2.he) - 1, "NEW")
            ELSE Out(replaceVertex(H3, Len(H2.he), Len(H1.vt)),
                     Len(H2.he) - 1, "NEW"))))
     ELSE IF closer = H.he[e].origin
          THEN Out([H EXCEPT !.vt[H.he[e].origin].loc = closest], e, "MODIFIED")
          ELSE Out([H EXCEPT !.vt[H.he[H.he[e].twin].origin].loc = closest],
                   e, "MODIFIED")

\* HalfEdge.constrain_to_circle(centre, radius, candidates, force).
HalfEdge_constrain_to_circle(H, e, centre, radius, candidates, force) ==
  LET results == within_circle(H, e, centre, radius)
      closer == getCloserAndFurther(H, e, centre)[1]
      further == getCloserAndFurther(H, e, centre)[2]
      intersections == intersect_with_circle(H.vt[closer].loc, H.vt[further].loc,
                                             centre, radius)
      \* intersections[np.argmin(distances)]: the one nearest to further
      closest == CHOOSE p \in intersections : \A q \in intersections :
                   get_distance_raw(H.vt[further].loc, p)
                     <= get_distance_raw(H.vt[further].loc, q)
  IN IF results[1] /\ results[2] THEN Out(H, e, "MODIFIED")
     ELSE IF ~results[1] /\ ~results[2] THEN Out(markForCleanup(H, e), e, "MODIFIED")
     ELSE IF ~force /\ HalfEdge_has_constraints(H, e, candidates)
     THEN \* vertTarget is the last vertex of H1, target the copy made in H2
          Bind(newVertex(H, closest), LAMBDA H1 :
          Bind(HalfEdge_copy(H1, e), LAMBDA H2 :
          Bind(markForCleanup(H2, e), LAMBDA H3 :
            IF further = H.he[e].origin
            THEN Out(replaceVertex(H3, Len(H2.he) - 1, Len(H1.vt)),
                     Len(H2.he) - 1, "NEW")
            ELSE Out(replaceVertex(H3, Len(H2.he), Len(H1.vt)),
                     Len(H2.he) - 1, "NEW"))))
     ELSE IF further = H.he[e].origin
          THEN Out([H EXCEPT !.vt[H.he[e].origin].loc = closest], e, "MODIFIED")
          ELSE Out([H EXCEPT !.vt[H.he[H.he[e].twin].origin].loc = closest],
                   e, "MODIFIED")

\* The body of constrain_to_bbox past the copy-on-write test (lines 473-512).
\* intersects_bbox asserts fewer than three crossings; the two-crossing
\* branch reads intersect_coords, which only the one-crossing branch binds,
\* and raises before it changes anything.
constrain_to_bbox_body(H, e, bbox) ==
  LET intersections == intersects_bbox(H, e, bbox)
      \* outsideVerts[0] == self.origin
      target == IF ~Vertex_within(H, H.he[e].origin, bbox) THEN e ELSE H.he[e].twin
  IN IF Len(intersections) >= 3 THEN Out(H, e, "ERROR")
     ELSE IF HalfEdge_within(H, e, bbox) THEN Out(H, e, "MODIFIED")
     ELSE IF HalfEdge_outside(H, e, bbox) THEN Out(markForCleanup(H, e), e, "MODIFIED")
     ELSE IF Len(intersections) = 0 THEN Out(H, e, "ERROR")
     ELSE IF Len(intersections) = 1
     THEN Bind(newVertex(H, intersections[1].point), LAMBDA H1 :
            Out(replaceVertex(H1, target, Len(H1.vt)), e, "MODIFIED"))
     ELSE Out(H, e, "ERROR")

\* HalfEdge.constrain_to_bbox(bbox, candidates, force).
HalfEdge_constrain_to_bbox(H, e, bbox, candidates, force) ==
  IF ~force /\ HalfEdge_has_constraints(H, e, candidates)
  THEN Bind(HalfEdge_copy(H, e), LAMBDA H1 :
       Bind(constrain_to_bbox_body(H1, Len(H1.he) - 1, bbox), LAMBDA o :
         Out(o.H, o.result, IF o.tag = "ERROR" THEN "ERROR" ELSE "NEW")))
  ELSE constrain_to_bbox_body(H, e, bbox)

\* ------------------------------------------------------------------------
\* Face edits under the copy-on-write protocol
\* ------------------------------------------------------------------------

\* [x.copy() for x in self.edgeList], from position i on.
RECURSIVE copy_edges(_, _, _)
copy_edges(H, edges, i) ==
  IF i > Len(edges) THEN H
  ELSE Bind(HalfEdge_copy(H, edges[i]), LAMBDA H1 : copy_edges(H1, edges, i + 1))

\* Face.add_edges(edges), from position i on.
RECURSIVE add_edges(_, _, _, _)
add_edges(H, f, edges, i) ==
  IF i > Len(edges) THEN H
  ELSE Bind(add_edge(H, f, edges[i]), LAMBDA H1 : add_edges(H1, f, edges, i + 1))

\* dcel.newFace(edges=es): a fresh face the edges are added to.
newFace_edges(H, es) ==
  Bind(newFace(H), LAMBDA H1 : add_edges(H1, Len(H1.fc), es, 1))

\* Face.copy(): a copy of every boundary half-edge (each with its own two
\* vertices) and a new face of the copies; the copy is the last face of the
\* heap returned.
Face_copy(H, f) ==
  LET es == [i \in 1..Len(H.fc[f].edgeList) |-> Len(H.he) + 2 * i - 1]
  IN Bind(copy_edges(H, H.fc[f].edgeList, 1), LAMBDA H1 : newFace_edges(H1, es))

\* An edit of a copy, handed back as the edit of the original: NEW, unless
\* the edit of the copy raised.
AsNew(v) ==
  Bind(v, LAMBDA o : Out(o.H, o.result, IF o.tag = "MODIFIED" THEN "NEW" ELSE o.tag))

\* Face.translate_edge(transform, i=i, candidates, force), i counted from 1.
translate_edge_body(H, f, transform, i) ==
  Bind(HalfEdge_translate(H, H.fc[f].edgeList[i], transform, 1, FALSE,
                          NoCandidates, TRUE),
       LAMBDA o : Out(o.H, f, "MODIFIED"))

Face_translate_edge(H, f, transform, i, candidates, force) ==
  IF ~force /\ Face_has_constraints(H, f, candidates)
  THEN Bind(Face_copy(H, f), LAMBDA H1 :
         AsNew(translate_edge_body(H1, Len(H1.fc), transform, i)))
  ELSE translate_edge_body(H, f, transform, i)

\* Face.get_all_vertices(): the free vertices and the ends of every boundary
\* half-edge.
get_all_vertices(H, f) ==
  H.fc[f].free_vertices
    \cup UNION {{H.he[e].origin, H.he[H.he[e].twin].origin} : e \in Range(H.fc[f].edgeList)}

\* Face.scale(amnt, target, force, candidates) with a target given: every
\* vertex of the face moves to (loc - target) * amnt + target.
scale_body(H, f, amnt, target) ==
  Out([H EXCEPT !.vt = [v \in DOMAIN @ |->
         IF v \in get_all_vertices(H, f)
         THEN [@[v] EXCEPT !.loc = <<(@[1] - target[1]) * amnt[1] + target[1],
                                     (@[2] - target[2]) * amnt[2] + target[2]>>]
         ELSE @[v]]],
      f, "MODIFIED")

Face_scale(H, f, amnt, target, candidates, force) ==
  IF ~force /\ Face_has_constraints(H, f, candidates)
  THEN Bind(Face_copy(H, f), LAMBDA H1 : AsNew(scale_body(H1, Len(H1.fc), amnt, target)))
  ELSE scale_body(H, f, amnt, target)

\* Face.cut_out(candidates, force).
Face_cut_out(H, f, candidates, force) ==
  IF ~force /\ Face_has_constraints(H, f, candidates)
  THEN Bind(Face_copy(H, f), LAMBDA H1 : Out(H1, Len(H1.fc), "NEW"))
  ELSE Out(H, f, "MODIFIED")

\* for l in self.edgeList: l.rotate(c=target, r=rads, force=True).
RECURSIVE rotate_edges(_, _, _, _, _)
rotate_edges(H, edges, i, target, rads) ==
  IF i > Len(edges) THEN H
  ELSE Bind(HalfEdge_rotate(H, edges[i], target, rads, NoCandidates, TRUE),
            LAMBDA o : rotate_edges(o.H, edges, i + 1, target, rads))

\* Face.rotate(rads, target, candidates, force) with a target given.
Face_rotate(H, f, rads, target, candidates, force) ==
  IF ~force /\ Face_has_constraints(H, f, candidates)
  THEN Bind(Face_copy(H, f), LAMBDA H1 :
         Out(rotate_edges(H1, H1.fc[Len(H1.fc)].edgeList, 1, target, rads),
             Len(H1.fc), "NEW"))
  ELSE Out(rotate_edges(H, H.fc[f].edgeList, 1, target, rads), f, "MODIFIED")

\* The loop of Face.constrain_to_circle over the snapshot edges, from
\* position i on: each edge is constrained in place and, once marked for
\* cleanup, taken out of the boundary list.  "OFFGRID" marks a call that
\* leaves the cases the grid geometry decides (circle_on_grid).
RECURSIVE constrain_edges_to_circle(_, _, _, _, _, _)
constrain_edges_to_circle(H, f, edges, i, centre, radius) ==
  IF i > Len(edges) THEN Out(H, f, "MODIFIED")
  ELSE IF ~circle_on_grid(H, edges[i], centre, radius) THEN Out(H, f, "OFFGRID")
  ELSE Bind(HalfEdge_constrain_to_circle(H, edges[i], centre, radius,
                                         NoCandidates, TRUE), LAMBDA o :
         \* assert(eprime in self.edgeList)
         IF ~InList(o.result, o.H.fc[f].edgeList) THEN Out(o.H, f, "ERROR")
         ELSE Bind(IF o.H.he[o.result].markedForCleanup
                   THEN [o.H EXCEPT !.fc[f].edgeList = ListRemove(@, o.result)]
                   ELSE o.H, LAMBDA H1 :
                constrain_edges_to_circle(H1, f, edges, i + 1, centre, radius)))

\* Face.constrain_to_circle(centre, radius, candidates, force).
Face_constrain_to_circle(H, f, centre, radius, candidates, force) ==
  IF ~force /\ Face_has_constraints(H, f, candidates)
  THEN Bind(Face_copy(H, f), LAMBDA H1 :
         AsNew(constrain_edges_to_circle(H1, Len(H1.fc), H1.fc[Len(H1.fc)].edgeList,
                                         1, centre, radius)))
  ELSE constrain_edges_to_circle(H, f, H.fc[f].edgeList, 1, centre, radius)

\* The loop of Face.constrain_to_bbox over the snapshot edges: an edge
\* wholly outside is removed from the face, any other is constrained in
\* place; an exception of the edge's edit ends the loop.
RECURSIVE constrain_edges_to_bbox(_, _, _, _, _)
constrain_edges_to_bbox(H, f, edges, i, bbox) ==
  IF i > Len(edges) THEN Out(H, f, "MODIFIED")
  ELSE IF ~bbox_on_grid(H, edges[i], bbox) THEN Out(H, f, "OFFGRID")
  ELSE IF HalfEdge_outside(H, edges[i], bbox)
  THEN Bind(remove_edge(H, f, edges[i]), LAMBDA H1 :
         constrain_edges_to_bbox(H1, f, edges, i + 1, bbox))
  ELSE Bind(HalfEdge_constrain_to_bbox(H, edges[i], bbox, NoCandidates, TRUE),
            LAMBDA o :
         IF o.tag # "MODIFIED" THEN Out(o.H, f, o.tag)
         ELSE constrain_edges_to_bbox(o.H, f, edges, i + 1, bbox))

\* Face.constrain_to_bbox(bbox, candidates, force).
Face_constrain_to_bbox(H, f, bbox, candidates, force) ==
  IF ~force /\ Face_has_constraints(H, f, candidates)
  THEN Bind(Face_copy(H, f), LAMBDA H1 :
         AsNew(constrain_edges_to_bbox(H1, Len(H1.fc), H1.fc[Len(H1.fc)].edgeList,
                                       1, bbox)))
  ELSE constrain_edges_to_bbox(H, f, H.fc[f].edgeList, 1, bbox)

\* ------------------------------------------------------------------------
\* Face centroids and the ordering of the boundary list
\* ------------------------------------------------------------------------

\* A centre is <<x, y, k>> with k > 0, the point (x/k, y/k): the average of
\* k vertices is kept exact.  Scaled(p, c) is k * (p - c).
AsCentre(p) == <<p[1], p[2], 1>>

Scaled(p, c) == <<c[3] * p[1] - c[1], c[3] * p[2] - c[2]>>

\* np.sum(coords, axis=0) over the origins of the boundary list.
RECURSIVE sum_origins(_, _, _)
sum_origins(H, edges, i) ==
  IF i > Len(edges) THEN <<0, 0>>
  ELSE LET p == H.vt[H.he[edges[i]].origin].loc
           r == sum_origins(H, edges, i + 1)
       IN <<p[1] + r[1], p[2] + r[2]>>

\* The value Face.getAvgCentroid returns.
avgCentroid(H, f) ==
  LET s == sum_origins(H, H.fc[f].edgeList, 1)
  IN <<s[1], s[2], Len(H.fc[f].edgeList)>>

\* Face.getAvgCentroid: the face takes the average as its site when it has
\* none.
getAvgCentroid(H, f) ==
  IF H.fc[f].site = NoSite THEN [H EXCEPT !.fc[f].site = avgCentroid(H, f)] ELSE H

\* The value Face.getCentroid returns.
centroid(H, f) ==
  IF H.fc[f].site # NoSite THEN H.fc[f].site ELSE avgCentroid(H, f)

\* Face.getCentroid.
getCentroid(H, f) ==
  IF H.fc[f].site # NoSite THEN H ELSE getAvgCentroid(H, f)

\* HalfEdge.ccw(a, b, c) with a the centre: the cross product of the two
\* offsets is not negative.
ccw(centre, b, c) == cross(Scaled(b, centre), Scaled(c, centre)) >= 0

\* HalfEdge.he_ccw(centre).
he_ccw(H, e, centre) ==
  ccw(centre, H.vt[H.he[e].origin].loc, H.vt[H.he[H.he[e].twin].origin].loc)

\* Where (degrees(atan2(y, x)) + 360) % 360 falls: 0 for 0 degrees, 1 for
\* (0, 180), 2 for 180, 3 for (180, 360).
zone(v) ==
  IF v[2] = 0 THEN (IF v[1] >= 0 THEN 0 ELSE 2)
  ELSE IF v[2] > 0 THEN 1 ELSE 3

\* deg_a <= deg_b for the offsets a and b.
deg_leq(a, b) ==
  IF zone(a) # zone(b) THEN zone(a) < zone(b)
  ELSE IF zone(a) \in {0, 2} THEN TRUE
  ELSE cross(a, b) >= 0

\* HalfEdge.compareEdges(center, a, b).
compareEdges(H, center, a, b) ==
  deg_leq(Scaled(H.vt[H.he[a].origin].loc, center),
          Scaled(H.vt[H.he[b].origin].loc, center))

\* HalfEdge.__lt__(other): compared about the centroid of self's face.
lt(H, a, b) == compareEdges(H, centroid(H, H.he[a].face), a, b)

\* list.sort() on a list of fewer than 64 items: the first run is counted
\* (and reversed when descending), the rest is inserted by binary search.
\* RunEnd is the last position of the run that starts at 1.
RECURSIVE RunEnd(_, _, _, _)
RunEnd(H, s, i, descending) ==
  IF i > Len(s) THEN Len(s)
  ELSE IF lt(H, s[i], s[i - 1]) = descending THEN RunEnd(H, s, i + 1, descending)
  ELSE i - 1

Reversed(s, n) == [j \in 1..Len(s) |-> IF j <= n THEN s[n + 1 - j] ELSE s[j]]

\* count_run on a list of two items or more.
count_run(H, s) ==
  Bind(lt(H, s[2], s[1]), LAMBDA descending :
  Bind(RunEnd(H, s, 3, descending), LAMBDA n :
    [run |-> n, list |-> IF descending THEN Reversed(s, n) ELSE s]))

\* The position binary search gives the pivot within s[l..r-1].
RECURSIVE BinPos(_, _, _, _, _)
BinPos(H, s, pivot, l, r) ==
  IF l >= r THEN l
  ELSE Bind(l + ((r - l) \div 2), LAMBDA p :
         IF lt(H, pivot, s[p]) THEN BinPos(H, s, pivot, l, p)
         ELSE BinPos(H, s, pivot, p + 1, r))

\* s with the item at position start moved to position pos <= start.
MoveTo(s, start, pos) ==
  [j \in 1..Len(s) |-> IF j < pos \/ j > start THEN s[j]
                       ELSE IF j = pos THEN s[start] ELSE s[j - 1]]

RECURSIVE binarysort(_, _, _)
binarysort(H, s, start) ==
  IF start > Len(s) THEN s
  ELSE Bind(MoveTo(s, start, BinPos(H, s, s[start], 1, start)), LAMBDA s1 :
         binarysort(H, s1, start + 1))

list_sort(H, s) ==
  IF Len(s) < 2 THEN s
  ELSE Bind(count_run(H, s), LAMBDA c : binarysort(H, c.list, c.run + 1))

\* for x in edges: if not x.he_ccw(centre): x.swapFaces(), from position i
\* on.  swapFaces asserts a face and a twin.
RECURSIVE swap_cw_edges(_, _, _, _)
swap_cw_edges(H, edges, i, centre) ==
  IF i > Len(edges) THEN Out(H, None, "MODIFIED")
  ELSE IF he_ccw(H, edges[i], centre) THEN swap_cw_edges(H, edges, i + 1, centre)
  ELSE IF ~swapFaces_ok(H, edges[i]) THEN Out(H, None, "ERROR")
  ELSE Bind(swapFaces(H, edges[i]), LAMBDA H1 :
         swap_cw_edges(H1, edges, i + 1, centre))

\* The comparisons of the sort read the centroid of each item's face: every
\* item has a face, and that face a site.
sortable(H, f) ==
  \A e \in Range(H.fc[f].edgeList) :
    IF H.he[e].face = None THEN FALSE ELSE H.fc[H.he[e].face].site # NoSite

\* Face.sort_edges.  "OFFGRID" marks a call outside the cases modelled here
\* (an item of the list without a face, or whose face has no site).  The
\* assertion that every item is counter-clockwise is caught where it is
\* raised, and the sort goes on.
sort_edges(H, f) ==
  Bind(getCentroid(H, f), LAMBDA H1 :
  Bind(swap_cw_edges(H1, H1.fc[f].edgeList, 1, H1.fc[f].site), LAMBDA o :
    IF o.tag = "ERROR" THEN Out(o.H, f, "ERROR")
    ELSE IF ~sortable(o.H, f) THEN Out(o.H, f, "OFFGRID")
    ELSE Bind(o.H, LAMBDA H2 :
           Out([H2 EXCEPT !.fc[f].edgeList = list_sort(H2, @)], f, "MODIFIED"))))

\* ------------------------------------------------------------------------
\* Face.subdivide
\* ------------------------------------------------------------------------

\* sampleAlongLine(line, [0.5]): the midpoint of the edge.
midpoint(H, e) ==
  <<(toArray(H, e)[1][1] + toArray(H, e)[2][1]) \div 2,
    (toArray(H, e)[1][2] + toArray(H, e)[2][2]) \div 2>>

\* The midpoint of the edge is a point of the grid.
midpoint_on_grid(H, e) ==
  /\ (toArray(H, e)[1][1] + toArray(H, e)[2][1]) % 2 = 0
  /\ (toArray(H, e)[1][2] + toArray(H, e)[2][2]) % 2 = 0

\* HalfEdge.split_by_ratio(r=0.5, face_update).
split_by_ratio(H, e, face_update) ==
  split(H, e, [isVertex |-> FALSE, vertex |-> None, point |-> midpoint(H, e)],
        face_update)

\* The edge runs along an axis, so that its unit normal is on the grid.
axis_aligned(H, e) ==
  /\ toArray(H, e)[1] # toArray(H, e)[2]
  /\ toArray(H, e)[1][1] = toArray(H, e)[2][1] \/ toArray(H, e)[1][2] = toArray(H, e)[2][2]

sgn(x) == IF x > 0 THEN 1 ELSE IF x < 0 THEN -1 ELSE 0

\* math.get_bisector(p1, p2) for an edge along an axis: the unit normal to
\* the left of the direction p1 -> p2, the inner side of a boundary that
\* sort_edges has wound counter-clockwise.
get_bisector(p1, p2) == <<-sgn(p2[2] - p1[2]), sgn(p2[1] - p1[1])>>

ProbeLength == 1000

\* math.extend_line(p, dir, distance).
extend_line(p, dir, distance) == <<p[1] + dir[1] * distance, p[2] + dir[2] * distance>>

\* The probe misses the segment, or crosses it at a grid point that is not
\* an end of the segment nor the start of the probe.
probe_on_grid(probe, seg) ==
  /\ intersect_on_grid(probe, seg)
  /\ intersect(probe, seg) # <<>> => intersect(probe, seg)[1] \notin {seg[1], seg[2], probe[1]}

\* for he in self.edgeList: the first half-edge, other than edge and
\* newEdge, that the probe crosses; the asserts after the loop fail when
\* there is none.
RECURSIVE find_opposite(_, _, _, _, _)
find_opposite(H, edges, i, skip, probe) ==
  IF i > Len(edges) THEN [tag |-> "ERROR", he |-> None, point |-> <<>>]
  ELSE IF edges[i] \in skip THEN find_opposite(H, edges, i + 1, skip, probe)
  ELSE IF ~probe_on_grid(probe, toArray(H, edges[i]))
       THEN [tag |-> "OFFGRID", he |-> None, point |-> <<>>]
  ELSE IF intersect(probe, toArray(H, edges[i])) # <<>>
       THEN [tag |-> "MODIFIED", he |-> edges[i],
             point |-> intersect(probe, toArray(H, edges[i]))[1]]
  ELSE find_opposite(H, edges, i + 1, skip, probe)

\* while current != stop: assert(current.next is not None); append; follow
\* next.  ok is FALSE when the assert fails or the chain comes back on
\* itself without reaching stop (the loop then never ends); list holds the
\* half-edges appended so far, stop included once reached.
RECURSIVE walk(_, _, _, _)
walk(H, current, stop, acc) ==
  IF current = stop THEN [ok |-> TRUE, list |-> Append(acc, current)]
  ELSE IF H.he[current].next = None \/ InList(current, acc)
       THEN [ok |-> FALSE, list |-> acc]
  ELSE walk(H, H.he[current].next, stop, Append(acc, current))

\* current.face = newFace for every half-edge of the list.
RECURSIVE set_faces(_, _, _, _)
set_faces(H, list, i, f) ==
  IF i > Len(list) THEN H
  ELSE Bind([H EXCEPT !.he[list[i]].face = f], LAMBDA H1 : set_faces(H1, list, i + 1, f))

\* The end of subdivide: H holds the dividing edge div and its twin, linked
\* in; the two boundary lists are collected along the next chains and
\* assigned.
divide_edges(H, f, newFace_, edge, newEdge_, oppEdge, newOppEdge, div) ==
  Bind(walk(H, newOppEdge, edge, <<>>), LAMBDA w1 :
    IF ~w1.ok THEN Out(H, f, "ERROR")
    ELSE Bind(walk(H, newEdge_, oppEdge, <<>>), LAMBDA w2 :
         Bind(set_faces(H, w2.list, 1, newFace_), LAMBDA H1 :
           IF ~w2.ok THEN Out(H1, f, "ERROR")
           ELSE Out([H1 EXCEPT !.fc[f].edgeList = Append(w1.list, div),
                               !.fc[newFace_].edgeList = Append(w2.list, H1.he[div].twin)],
                    newFace_, "MODIFIED"))))

\* subdivide from the split of the opposite edge on: H is the heap after
\* edge.split_by_ratio, opp what the search found.
subdivide_at(H, f, edge, newPoint, newEdge_, opp) ==
  Bind(split(H, opp.he, [isVertex |-> FALSE, vertex |-> None, point |-> opp.point], TRUE),
       LAMBDA H1 :
  Bind(newFace(H1), LAMBDA H2 :
  Bind(newEdge(H2, newPoint, Len(H.vt) + 1, f, Len(H2.fc)), LAMBDA H3 :
  Bind(addPrev(H3, Len(H3.he) - 1, edge), LAMBDA H4 :
  Bind(addNext(H4, Len(H3.he) - 1, Len(H.he) + 1), LAMBDA H5 :
  Bind(addPrev(H5, Len(H3.he), opp.he), LAMBDA H6 :
  Bind(addNext(H6, Len(H3.he), newEdge_), LAMBDA H7 :
    divide_edges(H7, f, Len(H2.fc), edge, newEdge_, opp.he, Len(H.he) + 1,
                 Len(H3.he) - 1))))))))

\* Face.subdivide(edge) with the default ratio 0.5 and angle 0.  The result
\* is the new face; "ERROR" stands for a failed assert, "OFFGRID" for a call
\* outside the cases the grid geometry decides.
subdivide(H, f, edge) ==
  Bind(sort_edges(H, f), LAMBDA o :
    IF o.tag # "MODIFIED" THEN o
    ELSE IF ~InList(edge, o.H.fc[f].edgeList) THEN Out(o.H, f, "ERROR")
    ELSE IF ~(midpoint_on_grid(o.H, edge) /\ axis_aligned(o.H, edge))
         THEN Out(o.H, f, "OFFGRID")
    ELSE Bind(split_by_ratio(o.H, edge, TRUE), LAMBDA H1 :
         Bind(find_opposite(H1, H1.fc[f].edgeList, 1, {edge, Len(o.H.he) + 1},
                            <<H1.vt[Len(H1.vt)].loc,
                              extend_line(H1.vt[Len(H1.vt)].loc,
                                          get_bisector(toArray(H1, edge)[1],
                                                       toArray(H1, edge)[2]),
                                          ProbeLength)>>),
              LAMBDA opp :
           IF opp.tag # "MODIFIED" THEN Out(H1, f, opp.tag)
           ELSE subdivide_at(H1, f, edge, Len(H1.vt), Len(o.H.he) + 1, opp))))

\* ------------------------------------------------------------------------
\* Face.fixup
\* ------------------------------------------------------------------------

\* math.within_bbox(point, bbox) for a centre <<x, y, k>>.
within_bbox(c, bbox) ==
  /\ bbox[1] * c[3] <= c[1] /\ c[1] <= bbox[3] * c[3]
  /\ bbox[2] * c[3] <= c[2] /\ c[2] <= bbox[4] * c[3]

\* math.calc_bbox_corner(bbox, sides): the corner two adjacent sides share.
calc_bbox_corner(bbox, sides) ==
  <<IF "VLEFT" \in sides THEN bbox[1] ELSE bbox[3],
    IF "HBOTTOM" \in sides THEN bbox[2] ELSE bbox[4]>>

\* The two sides are adjacent: one horizontal, one vertical.
adjacent_sides(sides) ==
  /\ sides \cap {"HBOTTOM", "HTOP"} # {}
  /\ sides \cap {"VLEFT", "VRIGHT"} # {}

\* HalfEdge.connections_align(other), on full edges.
connections_align(H, e, other) == H.he[H.he[e].twin].origin = H.he[other].origin

\* for e in self.edgeList: self.add_edge(e).
RECURSIVE readd_edges(_, _, _, _)
readd_edges(H, f, edges, i) ==
  IF i > Len(edges) THEN H
  ELSE Bind(add_edge(H, f, edges[i]), LAMBDA H1 : readd_edges(H1, f, edges, i + 1))

\* The bridging edge b, inserted before e, crosses two different sides of
\* the box: it is split in the middle and the new vertex moved to the
\* corner.
bridge_corner(H, f, b, index, bbox, sides) ==
  Bind(split_by_ratio(H, b, FALSE), LAMBDA H1 :
  Bind([H1 EXCEPT !.he[Len(H.he) + 1].face = f], LAMBDA H2 :
  Bind([H2 EXCEPT !.fc[f].edgeList = ListInsert(@, index + 1, Len(H.he) + 1)], LAMBDA H3 :
    Vertex_translate(H3, Len(H3.vt), calc_bbox_corner(bbox, sides)))))

\* The branch of fixup taken when prev and e do not meet: a new edge from
\* the end of e.prev to the origin of e, given the face by assignment and
\* inserted before e.
bridge(H, f, e, bbox) ==
  Bind(newEdge(H, H.he[H.he[H.he[e].prev].twin].origin, H.he[e].origin, None, None),
       LAMBDA H1 :
  Bind([H1 EXCEPT !.he[Len(H.he) + 1].face = f], LAMBDA H2 :
  Bind(addPrev(H2, Len(H.he) + 1, H2.he[e].prev), LAMBDA H3 :
  Bind(addNext(H3, Len(H.he) + 1, e), LAMBDA H4 :
  Bind([H4 EXCEPT !.fc[f].edgeList = ListInsert(@, IndexOf(e, @), Len(H.he) + 1)],
       LAMBDA H5 :
  Bind(intersects_bbox(H5, Len(H.he) + 1, bbox), LAMBDA nib :
    IF ~bbox_on_grid(H5, Len(H.he) + 1, bbox) THEN Out(H5, f, "OFFGRID")
    ELSE IF Len(nib) >= 3 THEN Out(H5, f, "ERROR")
    ELSE IF Len(nib) = 2 /\ nib[1].side # nib[2].side
    THEN IF ~(adjacent_sides({nib[1].side, nib[2].side})
                /\ midpoint_on_grid(H5, Len(H.he) + 1))
         THEN Out(H5, f, "OFFGRID")
         ELSE Out(bridge_corner(H5, f, Len(H.he) + 1, IndexOf(e, H.fc[f].edgeList),
                                bbox, {nib[1].side, nib[2].side}),
                  f, "MODIFIED")
    ELSE Out(H5, f, "MODIFIED")))))))

\* The loop of fixup over the snapshot edges from position i on, prev being
\* the edge before.  inferred collects the bridging edges.
RECURSIVE fixup_edges(_, _, _, _, _, _, _)
fixup_edges(H, f, edges, i, prev, bbox, inferred) ==
  IF i > Len(edges) THEN [H |-> H, result |-> inferred, tag |-> "MODIFIED"]
  ELSE Bind(IF H.he[edges[i]].prev # prev THEN addPrev(H, edges[i], prev) ELSE H,
            LAMBDA H1 :
         IF connections_align(H1, prev, edges[i])
         THEN fixup_edges(H1, f, edges, i + 1, edges[i], bbox, inferred)
         ELSE Bind(bridge(H1, f, edges[i], bbox), LAMBDA o :
                IF o.tag # "MODIFIED" THEN o
                ELSE fixup_edges(o.H, f, edges, i + 1, edges[i], bbox,
                                 Append(inferred, Len(H1.he) + 1))))

\* fixup from the first sort_edges on; centre is what getCentroid returned
\* and altered whether the site was replaced by the average.
fixup_sorted(H, f, bbox, centre, altered) ==
  Bind(sort_edges(H, f), LAMBDA o1 :
    IF o1.tag # "MODIFIED" THEN o1
    ELSE Bind(fixup_edges(o1.H, f, o1.H.fc[f].edgeList, 1,
                          o1.H.fc[f].edgeList[Len(o1.H.fc[f].edgeList)], bbox, <<>>),
              LAMBDA o2 :
           IF o2.tag # "MODIFIED" THEN o2
           ELSE Bind(sort_edges(o2.H, f), LAMBDA o3 :
                  IF o3.tag # "MODIFIED" THEN o3
                  ELSE [H |-> IF altered THEN [o3.H EXCEPT !.fc[f].site = centre]
                              ELSE o3.H,
                        result |-> o2.result, tag |-> "MODIFIED"])))

\* Face.fixup(bbox).  The result is the list of the bridging edges.
fixup(H, f, bbox) ==
  IF H.fc[f].edgeList = <<>>
  THEN [H |-> [H EXCEPT !.fc[f].markedForCleanup = TRUE], result |-> <<>>,
        tag |-> "MODIFIED"]
  ELSE IF Len(H.fc[f].edgeList) < 2 THEN [H |-> H, result |-> <<>>, tag |-> "MODIFIED"]
  ELSE Bind(readd_edges(H, f, H.fc[f].edgeList, 1), LAMBDA H1 :
       Bind(centroid(H1, f), LAMBDA centre :
       Bind(avgCentroid(H1, f), LAMBDA avgCentre :
       Bind(getAvgCentroid(getCentroid(H1, f), f), LAMBDA H2 :
         IF ~within_bbox(centre, bbox) /\ within_bbox(avgCentre, bbox)
         THEN Bind([H2 EXCEPT !.fc[f].site = avgCentre], LAMBDA H3 :
                fixup_sorted(H3, f, bbox, centre, TRUE))
         ELSE fixup_sorted(H2, f, bbox, centre, FALSE)))))


\* ------------------------------------------------------------------------
\* HalfEdge.extend and HalfEdge.fix_faces
\* ------------------------------------------------------------------------

\* The bound of follow_sequence on the length of a chain.
EDGE_FOLLOW_GUARD == 200

\* HalfEdge.follow_sequence(): the half-edges along next from e, until the
\* chain ends, comes back to e or the guard is reached.
RECURSIVE follow_from(_, _, _, _)
follow_from(H, e, current, edges) ==
  IF Len(edges) < EDGE_FOLLOW_GUARD /\ current # None /\ current # e
  THEN follow_from(H, e, H.he[current].next, Append(edges, current))
  ELSE edges

follow_sequence(H, e) == follow_from(H, e, H.he[e].next, <<e>>)

\* The angle (degrees(atan2(y, x)) + 360) % 360 of offset a is below that of
\* offset b.
angle_lt(a, b) ==
  IF zone(a) # zone(b) THEN zone(a) < zone(b)
  ELSE IF zone(a) \in {0, 2} THEN FALSE
  ELSE cross(a, b) > 0

\* The vertices at the far ends of the half-edges registered on vertex v.
far_ends(H, v) == {H.he[H.he[x].twin].origin : x \in H.vt[v].halfEdges}

\* edgeLookup: the twin of the half-edge of v that ends on vertex a.
edgeLookup(H, v, a) ==
  H.he[CHOOSE x \in H.vt[v].halfEdges : H.he[H.he[x].twin].origin = a].twin

\* fix_faces can read the far end of every half-edge registered on v.
far_ends_ok(H, v) ==
  \A x \in H.vt[v].halfEdges :
    IF H.he[x].twin = None THEN FALSE ELSE H.he[H.he[x].twin].origin # None

\* The far ends are told apart by their angle about v: no two half-edges of
\* v end on the same vertex or in the same direction.
far_ends_apart(H, v) ==
  \A x, y \in H.vt[v].halfEdges :
    x # y => \/ angle_lt(Minus(H.vt[H.he[H.he[x].twin].origin].loc, H.vt[v].loc),
                         Minus(H.vt[H.he[H.he[y].twin].origin].loc, H.vt[v].loc))
             \/ angle_lt(Minus(H.vt[H.he[H.he[y].twin].origin].loc, H.vt[v].loc),
                         Minus(H.vt[H.he[H.he[x].twin].origin].loc, H.vt[v].loc))

\* dcel.orderVertices(focus, vertices): the vertices by ascending angle
\* about the focus.
orderVertices(H, focus, vertices) ==
  CHOOSE s \in [1..Cardinality(vertices) -> vertices] :
    \A i, j \in 1..Cardinality(vertices) :
      i < j => angle_lt(Minus(H.vt[s[i]].loc, focus), Minus(H.vt[s[j]].loc, focus))

\* for a, b in zipped: a_edge.twin.addPrev(b_edge, force=True), over the
\* pairs of cyclic neighbours of ordered, k pairs done, starting at position
\* start; lookup is edgeLookup.
RECURSIVE link_pairs(_, _, _, _, _)
link_pairs(H, lookup, ordered, start, k) ==
  IF k >= Len(ordered) THEN H
  ELSE Bind(addPrev(H,
                    H.he[lookup[ordered[((start - 1 + k) % Len(ordered)) + 1]]].twin,
                    lookup[ordered[((start + k) % Len(ordered)) + 1]]),
            LAMBDA H1 : link_pairs(H1, lookup, ordered, start, k + 1))

\* for e in f2_sequence: self.prev.face.remove_edge(e); twin_face.add_edge(e).
RECURSIVE move_edges(_, _, _, _, _)
move_edges(H, edges, i, n, twin_face) ==
  IF i > Len(edges) THEN H
  ELSE Bind(remove_edge(H, H.he[H.he[n].prev].face, edges[i]), LAMBDA H1 :
       Bind(add_edge(H1, twin_face, edges[i]), LAMBDA H2 :
         move_edges(H2, edges, i + 1, n, twin_face)))

\* assign_faces without self.prev.face.add_edge(self).
assign_faces_skips_self(H, n, originator) ==
  Bind(IF H.he[H.he[n].prev].face = None
       THEN Bind(newFace(H), LAMBDA H1 : add_edge(H1, Len(H1.fc), H1.he[n].prev))
       ELSE H, LAMBDA H2 :
  Bind(IF H2.he[H2.he[originator].twin].face = None
       THEN Bind(newFace(H2), LAMBDA H3 : add_edge(H3, Len(H3.fc), H3.he[originator].twin))
       ELSE H2, LAMBDA H5 :
    IF InList(H5.he[originator].twin, follow_sequence(H5, H5.he[n].twin))
    THEN Out(add_edge(H5, H5.he[H5.he[originator].twin].face, H5.he[n].twin), n, "MODIFIED")
    ELSE Bind(newFace(H5), LAMBDA H6 :
           Out(move_edges(H6, follow_sequence(H6, H6.he[n].twin), 1, n, Len(H6.fc)),
               n, "MODIFIED"))))

\* fix_faces after the linking loop: the faces of self (n), of its twin and
\* of the originator's twin.
assign_faces(H, n, originator) ==
  Bind(IF H.he[H.he[n].prev].face = None
       THEN Bind(newFace(H), LAMBDA H1 : add_edge(H1, Len(H1.fc), H1.he[n].prev))
       ELSE H, LAMBDA H2 :
  Bind(IF H2.he[H2.he[originator].twin].face = None
       THEN Bind(newFace(H2), LAMBDA H3 : add_edge(H3, Len(H3.fc), H3.he[originator].twin))
       ELSE H2, LAMBDA H4 :
  Bind(add_edge(H4, H4.he[H4.he[n].prev].face, n), LAMBDA H5 :
    IF InList(H5.he[originator].twin, follow_sequence(H5, H5.he[n].twin))
    THEN Out(add_edge(H5, H5.he[H5.he[originator].twin].face, H5.he[n].twin), n, "MODIFIED")
    ELSE Bind(newFace(H5), LAMBDA H6 :
           Out(move_edges(H6, follow_sequence(H6, H6.he[n].twin), 1, n, Len(H6.fc)),
               n, "MODIFIED")))))

\* HalfEdge.fix_faces(originator) on the new half-edge n.  "ERROR" stands
\* for a raised exception, "OFFGRID" for far ends the angular order does not
\* tell apart.
fix_faces(H, n, originator) ==
  IF ~far_ends_ok(H, H.he[n].origin) THEN Out(H, n, "ERROR")
  ELSE IF H.he[originator].origin \notin far_ends(H, H.he[n].origin) THEN Out(H, n, "ERROR")
  ELSE IF ~far_ends_apart(H, H.he[n].origin) THEN Out(H, n, "OFFGRID")
  ELSE Bind(orderVertices(H, H.vt[H.he[n].origin].loc, far_ends(H, H.he[n].origin)),
            LAMBDA ordered :
       Bind(link_pairs(H, [a \in far_ends(H, H.he[n].origin) |->
                             edgeLookup(H, H.he[n].origin, a)],
                       ordered, IndexOf(H.he[originator].origin, ordered), 0),
            LAMBDA H1 :
         IF H1.he[n].prev = None THEN Out(H1, n, "ERROR")
         ELSE assign_faces(H1, n, originator)))

\* HalfEdge.extend(target=target, d=None): a new vertex at the target, a new
\* edge from the far end of e to it, then fix_faces.  The result is the new
\* half-edge.
extend(H, e, target) ==
  Bind(newVertex(H, target), LAMBDA H1 :
  Bind(newEdge(H1, H1.he[H1.he[e].twin].origin, Len(H1.vt), None, None), LAMBDA H2 :
    fix_faces(H2, Len(H2.he) - 1, e)))

\* ------------------------------------------------------------------------
\* HalfEdge.split_by_ratio with a given ratio
\* ------------------------------------------------------------------------

\* sampleAlongLine(line, [r])[0] with r = r2 / 2: the point start +
\* r * (end - start), whatever the ratio.
sampleAlongLine(line, r2) ==
  <<line[1][1] + ((line[2][1] - line[1][1]) * r2) \div 2,
    line[1][2] + ((line[2][2] - line[1][2]) * r2) \div 2>>

\* The sampled point is a point of the grid.
sample_on_grid(line, r2) ==
  /\ ((line[2][1] - line[1][1]) * r2) % 2 = 0
  /\ ((line[2][2] - line[1][2]) * r2) % 2 = 0

\* HalfEdge.split_by_ratio(r=r2/2, face_update): the outcome holds the heap
\* and newPoint.
split_by_ratio_r(H, e, r2, face_update) ==
  Out(split(H, e, [isVertex |-> FALSE, vertex |-> None,
                   point |-> sampleAlongLine(toArray(H, e), r2)], face_update),
      Len(H.vt) + 1, "MODIFIED")

\* ------------------------------------------------------------------------
\* Face.merge_faces and Face.hull_from_vertices
\* ------------------------------------------------------------------------

\* Point p lies on the closed segment from a to b.
on_segment(p, a, b) ==
  /\ cross(Minus(b, a), Minus(p, a)) = 0
  /\ (p[1] - a[1]) * (p[1] - b[1]) <= 0
  /\ (p[2] - a[2]) * (p[2] - b[2]) <= 0

\* Point p lies in the closed triangle a, b, c, which has an area.
in_triangle(p, a, b, c) ==
  /\ cross(Minus(b, a), Minus(c, a)) # 0
  /\ \/ /\ cross(Minus(b, a), Minus(p, a)) >= 0
        /\ cross(Minus(c, b), Minus(p, b)) >= 0
        /\ cross(Minus(a, c), Minus(p, c)) >= 0
     \/ /\ cross(Minus(b, a), Minus(p, a)) =< 0
        /\ cross(Minus(c, b), Minus(p, b)) =< 0
        /\ cross(Minus(a, c), Minus(p, c)) =< 0

\* ConvexHull(points).vertices as a set: the vertices of verts that are
\* corners of the hull, that is on no segment and in no triangle of the
\* others.
hull_vertices(H, verts) ==
  {v \in verts :
     /\ \A a, b \in verts \ {v} : ~on_segment(H.vt[v].loc, H.vt[a].loc, H.vt[b].loc)
     /\ \A a, b, c \in verts \ {v} :
          ~in_triangle(H.vt[v].loc, H.vt[a].loc, H.vt[b].loc, H.vt[c].loc)}

\* ConvexHull accepts the points: no two vertices at one place, and not all
\* on one line.
hull_defined(H, verts) ==
  /\ \A a, b \in verts : a # b => H.vt[a].loc # H.vt[b].loc
  /\ \E a, b, c \in verts :
       cross(Minus(H.vt[b].loc, H.vt[a].loc), Minus(H.vt[c].loc, H.vt[a].loc)) # 0

\* The orders ConvexHull(points).vertices can have: the corners of the hull,
\* counter-clockwise, from any of them.
hull_orders(H, verts) ==
  {s \in [1..Cardinality(hull_vertices(H, verts)) -> hull_vertices(H, verts)] :
     /\ \A i, j \in DOMAIN s : i # j => s[i] # s[j]
     /\ \A i \in DOMAIN s :
          cross(Minus(H.vt[s[(i % Len(s)) + 1]].loc, H.vt[s[i]].loc),
                Minus(H.vt[s[((i + 1) % Len(s)) + 1]].loc,
                      H.vt[s[(i % Len(s)) + 1]].loc)) > 0}

\* Face.hull_from_vertices(verts) for the order hull of the corners: the
\* corners and the vertices to discard.
hull_from_vertices(verts, hull) ==
  [hull |-> hull, discarded |-> verts \ Range(hull)]

\* for s, e in zip(hull, islice(cycle(hull), 1, None)): dc.newEdge(s, e,
\* face=newFace), from position i of the hull on.
RECURSIVE hull_edges(_, _, _, _)
hull_edges(H, hull, i, face) ==
  IF i > Len(hull) THEN H
  ELSE Bind(newEdge(H, hull[i], hull[(i % Len(hull)) + 1], face, None), LAMBDA H1 :
         hull_edges(H1, hull, i + 1, face))

\* dc.linkEdgesTogether(edges, loop=True): each edge is followed by the
\* next of the list, the last by the first.
RECURSIVE linkEdgesTogether(_, _, _)
linkEdgesTogether(H, edges, i) ==
  IF i > Len(edges) THEN H
  ELSE Bind(addNext(H, edges[i], edges[(i % Len(edges)) + 1]), LAMBDA H1 :
         linkEdgesTogether(H1, edges, i + 1))

\* all_verts with the vertices of the first face only.
merge_vertices_first_only(H, faces) == get_all_vertices(H, faces[1])

\* all_verts of merge_faces: the vertices of every face given.
merge_vertices(H, faces) == UNION {get_all_vertices(H, faces[i]) : i \in DOMAIN faces}

\* Face.merge_faces(*faces), hull being the order in which ConvexHull gave
\* the corners: the new face and the discarded vertices.
merge_faces(H, faces, hull) ==
  Bind(newFace(H), LAMBDA H1 :
  Bind(hull_edges(H1, hull, 1, Len(H1.fc)), LAMBDA H2 :
    [H |-> linkEdgesTogether(H2, H2.fc[Len(H1.fc)].edgeList, 1),
     result |-> Len(H1.fc),
     discarded |-> hull_from_vertices(merge_vertices(H, faces), hull).discarded,
     tag |-> "MODIFIED"]))

\* ------------------------------------------------------------------------
\* Face.add_vertex and Face.get_all_coords
\* ------------------------------------------------------------------------

\* Face.add_vertex(vert).
add_vertex(H, f, v) ==
  [H EXCEPT !.fc[f].free_vertices = @ \cup {v}, !.fc[f].coord_list = NoCoords]

\* Face.hull_from_coords(coords) for the coordinates of the vertices verts:
\* the places of the corners of their hull.
hull_from_coords(H, verts) == {H.vt[v].loc : v \in hull_vertices(H, verts)}

\* Face.get_all_coords(): the cached list if there is one, else the hull of
\* the coordinates of all vertices, which is cached.  The list is held as
\* <<coordinates>>.
get_all_coords(H, f) ==
  IF H.fc[f].coord_list # NoCoords THEN H
  ELSE [H EXCEPT !.fc[f].coord_list = <<hull_from_coords(H, get_all_vertices(H, f))>>]
Next ==
  \/ NewHalfEdge
  \/ NewVertex
  \/ NewEdge
  \/ NewFace
  \/ AddVertex
  \/ ClearVertices
  \/ ReplaceVertex
  \/ AddNext
  \/ AddPrev
  \/ Split
  \/ AddEdge
  \/ RemoveEdge
  \/ SwapFaces

Spec == Init /\ [][Next]_vars

\* ------------------------------------------------------------------------
\* Properties of the topology
\* ------------------------------------------------------------------------

\* C1: every half-edge whose twin is set is its twin's twin, in every state
\* reached by construction (HalfEdge(twin=h) included), split and the
\* other topology calls.
C1_TwinPairing ==
  \A e \in HalfEdgeIds(heap) :
    heap.he[e].twin # None => heap.he[heap.he[e].twin].twin = e

NextPrevConsistent(H) ==
  \A h \in HalfEdgeIds(H) :
    /\ H.he[h].next # None => H.he[H.he[h].next].prev = h
    /\ H.he[h].prev # None => H.he[H.he[h].prev].next = h

\* C3: next/prev links are mutual (h.next.prev = h, h.prev.next = h); in
\* particular a split of an edge whose links were mutual leaves them mutual.
C3_SplitKeepsNextPrev ==
  (ret.op = "split" /\ NextPrevConsistent(pre)) => NextPrevConsistent(heap)

VertexIncidence(H) ==
  /\ \A v \in VertexIds(H) : \A h \in H.vt[v].halfEdges : H.he[h].origin = v
  /\ \A h \in HalfEdgeIds(H) :
       H.he[h].origin # None => h \in H.vt[H.he[h].origin].halfEdges

\* C4: a vertex's incidence set holds exactly the half-edges that start at
\* it; in particular after split the new vertex lists no half-edge that
\* starts elsewhere.
C4_VertexIncidence == VertexIncidence(heap)

\* ------------------------------------------------------------------------
\* Actions: has_constraints and the geometry edits
\* ------------------------------------------------------------------------

\* Candidate sets a call may be given: none, every half-edge and face of the
\* heap, or the full edge created last (a half-edge and its twin).
CandidateSets(H) ==
  {NoCandidates, [he |-> HalfEdgeIds(H), fc |-> FaceIds(H)]}
    \cup {[he |-> {e, H.he[e].twin}, fc |-> {}] :
            e \in {x \in HalfEdgeIds(H) : x = Len(H.he) /\ H.he[x].twin # None}}

\* Every boundary half-edge of f has both ends.
FullFace(H, f) == \A e \in Range(H.fc[f].edgeList) : ~isInfinite(H, e)

\* An edit returns: the outcome o of the call becomes the heap, the record
\* keeps the target, the arguments, the entity returned and its tag.
Edited(op, self, arg, pt, force, cands, o) ==
  Returns(o.H, Call(op, self, arg, pt, force, cands, o.result, None, o.tag, FALSE))

\* e.has_constraints(c).
HasConstraints ==
  \E e \in HalfEdgeIds(heap), c \in CandidateSets(heap) :
    Returns(heap,
            Call("has_constraints", e, None, P00, FALSE, c, None, None, "",
                 HalfEdge_has_constraints(heap, e, c)))

\* Directions and centres of the edits, quarter turns, radii and boxes.
Directions == {<<2, 0>>, <<0, 2>>}

Centres == {P00, P40}

Turns == {1, 2}

Radii == {1, 3}

BBoxes == {<<-1, -1, 1, 1>>, <<-1, -1, 3, 3>>}

\* e.translate(dir, candidates=c, force=force).
Translate ==
  /\ steps < MaxEdits
  /\ \E e \in HalfEdgeIds(heap), dir \in Directions, c \in CandidateSets(heap),
     force \in BOOLEAN :
    /\ ~isInfinite(heap, e)
    /\ \E o \in {HalfEdge_translate(heap, e, dir, 1, FALSE, c, force)} :
         Edited("HalfEdge.translate", e, None, dir, force, c, o)

\* e.rotate(cen, r, candidates=c, force=force), r quarter turns.
Rotate ==
  /\ steps < MaxEdits
  /\ \E e \in HalfEdgeIds(heap), cen \in Centres, r \in Turns,
     c \in CandidateSets(heap), force \in BOOLEAN :
    /\ ~isInfinite(heap, e)
    /\ \E o \in {HalfEdge_rotate(heap, e, cen, r, c, force)} :
         Edited("HalfEdge.rotate", e, r, cen, force, c, o)

\* e.constrain_to_circle(cen, radius, candidates=c, force=force).
ConstrainToCircle ==
  /\ steps < MaxEdits
  /\ \E e \in HalfEdgeIds(heap), cen \in Centres, radius \in Radii,
     c \in CandidateSets(heap), force \in BOOLEAN :
    /\ ~isInfinite(heap, e)
    /\ circle_on_grid(heap, e, cen, radius)
    /\ \E o \in {HalfEdge_constrain_to_circle(heap, e, cen, radius, c, force)} :
         Edited("HalfEdge.constrain_to_circle", e, radius, cen, force, c, o)

\* e.constrain_to_bbox(bbox, candidates=c, force=force).
ConstrainToBBox ==
  /\ steps < MaxEdits
  /\ \E e \in HalfEdgeIds(heap), bbox \in BBoxes, c \in CandidateSets(heap),
     force \in BOOLEAN :
    /\ ~isInfinite(heap, e)
    /\ bbox_on_grid(heap, e, bbox)
    /\ \E o \in {HalfEdge_constrain_to_bbox(heap, e, bbox, c, force)} :
         Edited("HalfEdge.constrain_to_bbox", e, None, bbox, force, c, o)

\* An edit of face f is explored when every boundary half-edge has both ends
\* and the call stays within the cases the grid geometry decides.
FaceEdited(op, f, arg, pt, force, cands, o) ==
  /\ o.tag # "OFFGRID"
  /\ Edited(op, f, arg, pt, force, cands, o)

\* f.translate_edge(dir, i=i, candidates=c, force=force).
FaceTranslateEdge ==
  /\ steps < MaxEdits
  /\ \E f \in FaceIds(heap), dir \in Directions, c \in CandidateSets(heap),
     force \in BOOLEAN :
    /\ FullFace(heap, f)
    /\ \E i \in 1..Len(heap.fc[f].edgeList) :
       \E o \in {Face_translate_edge(heap, f, dir, i, c, force)} :
         FaceEdited("Face.translate_edge", f, i, dir, force, c, o)

Amounts == {<<2, 2>>}

\* f.scale(amnt=amnt, target=cen, candidates=c, force=force).
FaceScale ==
  /\ steps < MaxEdits
  /\ \E f \in FaceIds(heap), amnt \in Amounts, cen \in Centres,
     c \in CandidateSets(heap), force \in BOOLEAN :
    /\ FullFace(heap, f)
    /\ \E o \in {Face_scale(heap, f, amnt, cen, c, force)} :
         FaceEdited("Face.scale", f, None, cen, force, c, o)

\* f.cut_out(candidates=c, force=force).
FaceCutOut ==
  /\ steps < MaxEdits
  /\ \E f \in FaceIds(heap), c \in CandidateSets(heap), force \in BOOLEAN :
    /\ FullFace(heap, f)
    /\ \E o \in {Face_cut_out(heap, f, c, force)} :
         FaceEdited("Face.cut_out", f, None, P00, force, c, o)

\* f.rotate(r, target=cen, candidates=c, force=force).
FaceRotate ==
  /\ steps < MaxEdits
  /\ \E f \in FaceIds(heap), cen \in Centres, r \in Turns,
     c \in CandidateSets(heap), force \in BOOLEAN :
    /\ FullFace(heap, f)
    /\ \E o \in {Face_rotate(heap, f, r, cen, c, force)} :
         FaceEdited("Face.rotate", f, r, cen, force, c, o)

\* f.constrain_to_circle(cen, radius, candidates=c, force=force).
FaceConstrainToCircle ==
  /\ steps < MaxEdits
  /\ \E f \in FaceIds(heap), cen \in Centres, radius \in Radii,
     c \in CandidateSets(heap), force \in BOOLEAN :
    /\ FullFace(heap, f)
    /\ \E o \in {Face_constrain_to_circle(heap, f, cen, radius, c, force)} :
         FaceEdited("Face.constrain_to_circle", f, radius, cen, force, c, o)

\* f.constrain_to_bbox(bbox, candidates=c, force=force).
FaceConstrainToBBox ==
  /\ steps < MaxEdits
  /\ \E f \in FaceIds(heap), bbox \in BBoxes, c \in CandidateSets(heap),
     force \in BOOLEAN :
    /\ FullFace(heap, f)
    /\ \E o \in {Face_constrain_to_bbox(heap, f, bbox, c, force)} :
         FaceEdited("Face.constrain_to_bbox", f, None, bbox, force, c, o)

\* The scenes the edits start from.
EditScenes == {SceneBare, SceneEdge, SceneDual, SceneChain, SceneSquare}

InitEdit ==
  /\ heap \in EditScenes
  /\ pre = heap
  /\ ret = NoCall
  /\ steps = 0

NextEdit ==
  \/ HasConstraints
  \/ Translate
  \/ Rotate
  \/ ConstrainToCircle
  \/ ConstrainToBBox
  \/ FaceTranslateEdge
  \/ FaceScale
  \/ FaceCutOut
  \/ FaceRotate
  \/ FaceConstrainToCircle
  \/ FaceConstrainToBBox

SpecEdit == InitEdit /\ [][NextEdit]_vars

\* ------------------------------------------------------------------------
\* Properties of the copy-on-write protocol (SpecEdit)
\* ------------------------------------------------------------------------

HalfEdgeEdits == {"HalfEdge.translate", "HalfEdge.rotate",
                  "HalfEdge.constrain_to_circle", "HalfEdge.constrain_to_bbox"}

FaceEdits == {"Face.translate_edge", "Face.scale", "Face.rotate", "Face.cut_out",
              "Face.constrain_to_circle", "Face.constrain_to_bbox"}

\* The last call was a geometry edit that returned.
EditReturned == ret.op \in HalfEdgeEdits \cup FaceEdits /\ ret.tag # "ERROR"

\* The target of the last edit had constraints, relative to the candidates
\* of the call, when the call was made.
TargetConstrained ==
  IF ret.op \in HalfEdgeEdits
  THEN HalfEdge_has_constraints(pre, ret.self, ret.cands)
  ELSE Face_has_constraints(pre, ret.self, ret.cands)

CloneCase == EditReturned /\ ~ret.force /\ TargetConstrained

InPlaceCase == EditReturned /\ (ret.force \/ ~TargetConstrained)

\* The half-edges of the target of the last edit, as they were at the call.
TargetEdges ==
  IF ret.op \in HalfEdgeEdits THEN <<ret.self>> ELSE pre.fc[ret.self].edgeList

\* The coordinates of both ends of half-edge e in heap H.
EndCoords(H, e) == <<H.vt[H.he[e].origin].loc, H.vt[H.he[H.he[e].twin].origin].loc>>

\* C7: an edit called with force=false on a target that has constraints
\* returns a result tagged NEW, the entity returned is not the target, and
\* the ends of the target's half-edges are where they were before the call.
C7_CloneCase ==
  CloneCase =>
    /\ ret.tag = "NEW"
    /\ ret.result # ret.self
    /\ \A i \in DOMAIN TargetEdges :
         EndCoords(heap, TargetEdges[i]) = EndCoords(pre, TargetEdges[i])

\* C8: an edit called with force=false on a target that has constraints
\* changes no field of any half-edge, vertex or face that existed before the
\* call; every change is in entities the call created.
C8_Isolation ==
  CloneCase =>
    /\ SubSeq(heap.he, 1, Len(pre.he)) = pre.he
    /\ SubSeq(heap.vt, 1, Len(pre.vt)) = pre.vt
    /\ SubSeq(heap.fc, 1, Len(pre.fc)) = pre.fc

\* C9: an edit called with force=true, or on a target without constraints,
\* returns the target itself tagged MODIFIED and moves the vertices in place:
\* no vertex, half-edge or face is created and every half-edge keeps the
\* vertex it had, so all users of a moved vertex see its new location;
\* cut_out changes nothing.
C9_InPlace ==
  InPlaceCase =>
    /\ ret.tag = "MODIFIED"
    /\ ret.result = ret.self
    /\ Len(heap.vt) = Len(pre.vt)
    /\ Len(heap.he) = Len(pre.he)
    /\ Len(heap.fc) = Len(pre.fc)
    /\ \A e \in HalfEdgeIds(pre) : heap.he[e].origin = pre.he[e].origin
    /\ ret.op = "Face.cut_out" => heap = pre

\* The half-edges a call of e.has_constraints(c) takes as the edit's own:
\* the candidates, e and its twin.
OwnEdges(H, e, c) ==
  c.he \cup {e} \cup (IF H.he[e].twin # None THEN {H.he[e].twin} ELSE {})

\* Some face of e or of its twin is not a candidate, or some half-edge
\* registered with an end of e is not one of the edit's own.
ReferencedOutside(H, e, c) ==
  LET pair == {e} \cup (IF H.he[e].twin # None THEN {H.he[e].twin} ELSE {})
      faces == {H.he[x].face : x \in pair} \ {None}
      ends == {H.he[x].origin : x \in pair} \ {None}
  IN \/ faces \ c.fc # {}
     \/ \E v \in ends : H.vt[v].halfEdges \ OwnEdges(H, e, c) # {}

\* Half-edge u belongs to another full edge on the same two ends as e.
SecondEdgeOn(H, e, u) ==
  /\ ~isInfinite(H, e) /\ ~isInfinite(H, u)
  /\ u \notin {e, H.he[e].twin}
  /\ {H.he[u].origin, H.he[H.he[u].twin].origin}
       = {H.he[e].origin, H.he[H.he[e].twin].origin}

\* C10: e.has_constraints(c) is true exactly when a face of e or of its twin,
\* or a user of an end of e, lies outside c with e and its twin added.  A
\* half-edge without origin, twin and face is unconstrained; so is a full
\* edge whose ends have no other user; a second edge on the same ends makes
\* it constrained and, passed as the candidates, unconstrained again.
C10_HasConstraints ==
  ret.op = "has_constraints" =>
    LET e == ret.self
        c == ret.cands
    IN /\ ret.flag = ReferencedOutside(pre, e, c)
       /\ (pre.he[e].origin = None /\ pre.he[e].twin = None /\ pre.he[e].face = None)
            => ~ret.flag
       /\ (/\ ~isInfinite(pre, e)
           /\ pre.he[e].face = None /\ pre.he[pre.he[e].twin].face = None
           /\ \A u \in HalfEdgeIds(pre) :
                {pre.he[e].origin, pre.he[pre.he[e].twin].origin} \cap {pre.he[u].origin} # {}
                  => u \in {e, pre.he[e].twin})
            => ~ret.flag
       /\ (c = NoCandidates /\ \E u \in HalfEdgeIds(pre) : SecondEdgeOn(pre, e, u))
            => ret.flag
       /\ (/\ pre = SceneDual
           /\ \E u \in c.he : SecondEdgeOn(pre, e, u) /\ c.he = {u, pre.he[u].twin})
            => ~ret.flag

\* has_constraints on the first edge of the two-edge scene, with the second
\* edge and its twin as the candidates, answered false.
C10_Witness ==
  /\ ret.op = "has_constraints"
  /\ pre = SceneDual
  /\ ret.self = 1
  /\ ret.cands = [he |-> {3, 4}, fc |-> {}]
  /\ ~ret.flag

\* ------------------------------------------------------------------------
\* Actions: the operations that keep the boundary lists (SpecFaces)
\* ------------------------------------------------------------------------

\* Every half-edge of the heap has both ends.
AllFull(H) == \A e \in HalfEdgeIds(H) : split_ok(H, e)

\* The centroid of f is defined: f has a site or a boundary half-edge.
HasCentre(H, f) == H.fc[f].site # NoSite \/ H.fc[f].edgeList # <<>>

\* f.sort_edges().
SortEdges ==
  /\ steps < MaxSteps
  /\ \E f \in FaceIds(heap) :
    /\ AllFull(heap) /\ HasCentre(heap, f)
    /\ \E o \in {sort_edges(heap, f)} :
         FaceEdited("sort_edges", f, None, P00, TRUE, NoCandidates, o)

\* f.subdivide(e).
Subdivide ==
  /\ steps < MaxSteps
  /\ \E f \in FaceIds(heap), e \in HalfEdgeIds(heap) :
    /\ AllFull(heap) /\ HasCentre(heap, f)
    /\ \E o \in {subdivide(heap, f, e)} :
         FaceEdited("subdivide", f, e, P00, TRUE, NoCandidates, o)

FixupBoxes == {<<-1, -1, 5, 5>>, <<-1, -1, 3, 3>>}

\* f.fixup(bbox).
Fixup ==
  /\ steps < MaxSteps
  /\ \E f \in FaceIds(heap), bbox \in FixupBoxes :
    /\ AllFull(heap)
    /\ \E o \in {fixup(heap, f, bbox)} :
         FaceEdited("fixup", f, None, bbox, TRUE, NoCandidates, [o EXCEPT !.result = f])

\* f.constrain_to_circle(cen, radius, force=force), without candidates.
ConstrainFaceToCircle ==
  /\ steps < MaxSteps
  /\ \E f \in FaceIds(heap), cen \in Centres, radius \in Radii, force \in BOOLEAN :
    /\ AllFull(heap)
    /\ \E o \in {Face_constrain_to_circle(heap, f, cen, radius, NoCandidates, force)} :
         FaceEdited("constrain_to_circle", f, radius, cen, force, NoCandidates, o)

\* f.constrain_to_bbox(bbox, force=force), without candidates.
ConstrainFaceToBBox ==
  /\ steps < MaxSteps
  /\ \E f \in FaceIds(heap), bbox \in BBoxes, force \in BOOLEAN :
    /\ AllFull(heap)
    /\ \E o \in {Face_constrain_to_bbox(heap, f, bbox, NoCandidates, force)} :
         FaceEdited("constrain_to_bbox", f, None, bbox, force, NoCandidates, o)

\* The faces the operations start from: two faces on either side of a chain
\* of two edges, and a square.
FaceScenes == {SceneChain, SceneSquare}

InitFaces ==
  /\ heap \in FaceScenes
  /\ pre = heap
  /\ ret = NoCall
  /\ steps = 0

NextFaces ==
  \/ AddEdge
  \/ RemoveEdge
  \/ SwapFaces
  \/ Split
  \/ SortEdges
  \/ Subdivide
  \/ Fixup
  \/ ConstrainFaceToCircle
  \/ ConstrainFaceToBBox

SpecFaces == InitFaces /\ [][NextFaces]_vars

\* ------------------------------------------------------------------------
\* Properties of face membership (SpecFaces)
\* ------------------------------------------------------------------------

\* Every half-edge in the boundary list of a face has that face.
ListedHaveFace(H) ==
  \A f \in FaceIds(H) : \A e \in Range(H.fc[f].edgeList) : H.he[e].face = f

\* No half-edge is in two boundary lists, or twice in one.
ListedOnce(H) ==
  \A f, g \in FaceIds(H) :
    \A i \in DOMAIN H.fc[f].edgeList, j \in DOMAIN H.fc[g].edgeList :
      H.fc[f].edgeList[i] = H.fc[g].edgeList[j] => (f = g /\ i = j)

\* Every half-edge with a face is in the boundary list of that face.
FaceListsEdge(H) ==
  \A e \in HalfEdgeIds(H) :
    H.he[e].face # None => InList(e, H.fc[H.he[e].face].edgeList)

\* The last call returned (it did not raise).
Returned == ret.op # "init" /\ ret.tag # "ERROR"

\* C5: an operation that starts with every listed half-edge having its
\* face, and none listed twice, returns with the same true: with the scenes
\* satisfying it, it holds after any sequence of the operations.
C5_ListImpliesFace ==
  (Returned /\ ListedHaveFace(pre) /\ ListedOnce(pre))
    => (ListedHaveFace(heap) /\ ListedOnce(heap))

\* C6: an operation that starts with every half-edge listed by the face it
\* has returns with the same true: no operation leaves a half-edge whose
\* face does not list it.
C6_FaceImpliesList ==
  (Returned /\ FaceListsEdge(pre)) => FaceListsEdge(heap)


\* Targets of the extensions: ahead of, above and below the scenes' edges.
Targets == {<<6, 0>>, <<2, 2>>, <<2, -2>>, <<-2, 0>>}

\* n = e.extend(target=p, d=None).
Extend ==
  /\ steps < MaxSteps
  /\ \E e \in HalfEdgeIds(heap), p \in Targets :
    /\ ~isInfinite(heap, e)
    /\ \E o \in {extend(heap, e, p)} :
         FaceEdited("extend", e, None, p, FALSE, NoCandidates, o)

\* ------------------------------------------------------------------------
\* Face.subdivide on error (SpecFaces)
\* ------------------------------------------------------------------------

\* What a caller can observe of the structure: the boundary lists in their
\* order, the references of every half-edge, the incidence sets and the
\* extent of the three tables.
Structure(H) ==
  [he |-> [e \in HalfEdgeIds(H) |->
             <<H.he[e].origin, H.he[e].twin, H.he[e].next, H.he[e].prev, H.he[e].face>>],
   vt |-> [v \in VertexIds(H) |-> H.vt[v].halfEdges],
   fc |-> [f \in FaceIds(H) |-> H.fc[f].edgeList]]

\* The last call was a subdivide that raised.
SubdivideRaised == ret.op = "subdivide" /\ ret.tag = "ERROR"

\* C11: when Face.subdivide raises, the boundary lists, the half-edge
\* references, the incidence sets and the live entities are as before the
\* call.
C11_SubdivideAllOrNothing == SubdivideRaised => Structure(heap) = Structure(pre)

\* ------------------------------------------------------------------------
\* Face.fixup (SpecFaces)
\* ------------------------------------------------------------------------

\* The last call was a fixup that returned.
FixupReturned == ret.op = "fixup" /\ ret.tag = "MODIFIED"

\* Every half-edge of the boundary list of f starts where the one before
\* it, cyclically, ends.
Aligned(H, f) ==
  \A i \in DOMAIN H.fc[f].edgeList :
    connections_align(H, H.fc[f].edgeList[IF i = 1 THEN Len(H.fc[f].edgeList) ELSE i - 1],
                      H.fc[f].edgeList[i])

\* C12: after fixup returns on a face with at least one boundary half-edge,
\* every pair of cyclically consecutive boundary half-edges meets:
\* prev.twin.origin = e.origin.
C12_FixupAligned ==
  (FixupReturned /\ heap.fc[ret.self].edgeList # <<>>) => Aligned(heap, ret.self)

\* ------------------------------------------------------------------------
\* HalfEdge.constrain_to_circle with one end inside (SpecEdit)
\* ------------------------------------------------------------------------

\* The last call was an in-place constrain_to_circle of a half-edge that had
\* exactly one end inside the circle.
OneEndInside ==
  /\ ret.op = "HalfEdge.constrain_to_circle"
  /\ ret.force \/ ~HalfEdge_has_constraints(pre, ret.self, ret.cands)
  /\ within_circle(pre, ret.self, ret.pt, ret.arg)[1]
       # within_circle(pre, ret.self, ret.pt, ret.arg)[2]

\* The vertex at the inside end and the one at the outside end, at the call.
InsideEnd ==
  IF within_circle(pre, ret.self, ret.pt, ret.arg)[1]
  THEN pre.he[ret.self].origin ELSE pre.he[pre.he[ret.self].twin].origin

OutsideEnd ==
  IF within_circle(pre, ret.self, ret.pt, ret.arg)[1]
  THEN pre.he[pre.he[ret.self].twin].origin ELSE pre.he[ret.self].origin

\* p lies on the closed segment a-b.
OnSegment(p, a, b) ==
  /\ cross(Minus(b, a), Minus(p, a)) = 0
  /\ (p[1] - a[1]) * (p[1] - b[1]) <= 0
  /\ (p[2] - a[2]) * (p[2] - b[2]) <= 0

\* C13: constrain_to_circle in place on a half-edge with exactly one end
\* inside the circle returns the same half-edge tagged MODIFIED, moves the
\* outside end, and no other vertex, to the point where the segment meets
\* the circle, keeps the ends on their vertices and leaves the cleanup flag
\* as it was.
C13_OneEndInside ==
  OneEndInside =>
    /\ ret.tag = "MODIFIED"
    /\ ret.result = ret.self
    /\ heap.he = pre.he
    /\ \A v \in VertexIds(pre) : v # OutsideEnd => heap.vt[v] = pre.vt[v]
    /\ Len(heap.vt) = Len(pre.vt)
    /\ get_distance_raw(ret.pt, heap.vt[OutsideEnd].loc) = ret.arg * ret.arg
    /\ OnSegment(heap.vt[OutsideEnd].loc, pre.vt[InsideEnd].loc, pre.vt[OutsideEnd].loc)

\* The edge (0,0)->(2,0) constrained to the circle of radius 1 about (0,0)
\* ends at (1,0): the case of test_halfedge_constrain_to_circle, moved to
\* the origin.
C13_Witness ==
  /\ OneEndInside
  /\ ret.pt = P00 /\ ret.arg = 1
  /\ EndCoords(pre, ret.self) = <<P00, P20>>
  /\ EndCoords(heap, ret.self) = <<P00, P10>>
  /\ ret.tag = "MODIFIED"

\* ------------------------------------------------------------------------
\* HalfEdge.intersects_bbox on single segments (SpecBBox)
\* ------------------------------------------------------------------------

\* Coordinates of the segment ends: outside, on and inside the boxes.
SegmentCoords == {-2, -1, 0, 1, 3, 4}

\* e = dc.createEdge(p1, p2) for two different points.
InitBBox ==
  /\ heap \in {createEdge(EmptyHeap, p1, p2) :
                 p1 \in SegmentCoords \X SegmentCoords,
                 p2 \in SegmentCoords \X SegmentCoords} 
  /\ heap.vt[1].loc # heap.vt[2].loc
  /\ pre = heap
  /\ ret = NoCall
  /\ steps = 0

\* e.intersects_bbox(bbox): the call raises when the assertion
\* len(result) < 3 fails; the record keeps the number of pairs found.
IntersectsBBox ==
  /\ steps < MaxSteps
  /\ \E e \in HalfEdgeIds(heap), bbox \in BBoxes :
    /\ ~isInfinite(heap, e)
    /\ \E r \in {intersects_bbox(heap, e, bbox)} :
         Returns(heap, Call("intersects_bbox", e, Len(r), bbox, FALSE, NoCandidates,
                            None, None, IF Len(r) < 3 THEN "" ELSE "ERROR", FALSE))

NextBBox ==
  \/ IntersectsBBox
  \/ ConstrainToBBox

SpecBBox == InitBBox /\ [][NextBBox]_vars

\* C14: intersects_bbox returns 0, 1 or 2 pairs and its assertion
\* len(result) < 3 never fails, for every segment with both ends and every
\* box, segments through the corners included.
C14_AtMostTwo ==
  ret.op = "intersects_bbox" => (ret.tag # "ERROR" /\ ret.arg \in 0..2)

\* The last call was e.constrain_to_bbox(bbox, force=True) on a segment with
\* two crossings with the sides of the box.
TwoCrossings ==
  /\ ret.op = "HalfEdge.constrain_to_bbox"
  /\ ret.force
  /\ Len(intersects_bbox(pre, ret.self, ret.pt)) = 2

\* C25: constrain_to_bbox with force on a segment with exactly two crossings
\* returns the half-edge tagged MODIFIED, and when the crossings are two
\* points the ends of the segment are then at these two points, each on a
\* new vertex.
C25_TwoCrossingsMoved ==
  TwoCrossings =>
    /\ ret.tag = "MODIFIED"
    /\ ret.result = ret.self
    /\ intersects_bbox(pre, ret.self, ret.pt)[1].point
           # intersects_bbox(pre, ret.self, ret.pt)[2].point
         => /\ {toArray(heap, ret.self)[1], toArray(heap, ret.self)[2]}
                 = {intersects_bbox(pre, ret.self, ret.pt)[1].point,
                    intersects_bbox(pre, ret.self, ret.pt)[2].point}
            /\ heap.he[ret.self].origin > Len(pre.vt)
            /\ heap.he[heap.he[ret.self].twin].origin > Len(pre.vt)

\* ------------------------------------------------------------------------
\* Indices of half-edges and faces (SpecIndex)
\* ------------------------------------------------------------------------

\* Index arguments of the constructors: left out, or a small integer.
IndexArgs == {NoIndex} \cup {<<i>> : i \in 0..3}

\* HalfEdge(twin=t, index=i).
NewHalfEdgeAt ==
  /\ steps < MaxSteps
  /\ \E t \in {None} \cup HalfEdgeIds(heap), i \in IndexArgs :
       Returns(HalfEdge_init_at(heap, None, t, i),
               Call("HalfEdge", None, t, P00, FALSE, NoCandidates,
                    Len(heap.he) + 1, None, "", i # NoIndex))

\* Face(index=i).
NewFaceAt ==
  /\ steps < MaxSteps
  /\ \E i \in IndexArgs :
       Returns(Face_init_at(heap, NoSite, i),
               Call("Face", None, None, P00, FALSE, NoCandidates,
                    Len(heap.fc) + 1, None, "", i # NoIndex))

InitIndex ==
  /\ heap \in {EmptyHeap, SceneEdge, SceneChain}
  /\ pre = heap
  /\ ret = NoCall
  /\ steps = 0

NextIndex ==
  \/ NewHalfEdgeAt
  \/ NewFaceAt

SpecIndex == InitIndex /\ [][NextIndex]_vars

\* No two half-edges, and no two faces, of H have the same index.
UniqueIndices(H) ==
  /\ \A a, b \in HalfEdgeIds(H) : H.he[a].index = H.he[b].index => a = b
  /\ \A f, g \in FaceIds(H) : H.fc[f].index = H.fc[g].index => f = g

\* Each counter of H is above every index given out so far.
CountersAbove(H) ==
  /\ \A e \in HalfEdgeIds(H) : H.he[e].index < H.heNextIndex
  /\ \A f \in FaceIds(H) : H.fc[f].index < H.fcNextIndex

\* C15: after any sequence of half-edge and face creations, with or without
\* an index given, no two entities of a type share an index, no counter
\* went down in the last creation and each counter is above every index
\* given out.
C15_IndexUnique ==
  /\ UniqueIndices(heap)
  /\ heap.heNextIndex >= pre.heNextIndex
  /\ heap.fcNextIndex >= pre.fcNextIndex
  /\ CountersAbove(heap)

\* ------------------------------------------------------------------------
\* The constrained flag under the operations (SpecFlag)
\* ------------------------------------------------------------------------

\* e.setConstrained().
SetConstrained ==
  /\ steps < MaxSteps
  /\ \E e \in HalfEdgeIds(heap) :
    /\ heap.he[e].twin # None
    /\ Returns(setConstrained(heap, e),
               Call("setConstrained", e, None, P00, FALSE, NoCandidates, None, None,
                    "", FALSE))

\* The scenes with the first edge flagged by setConstrained.
InitFlag ==
  /\ heap \in {setConstrained(S, 1) : S \in FaceScenes}
  /\ pre = heap
  /\ ret = NoCall
  /\ steps = 0

NextFlag ==
  \/ SetConstrained
  \/ Split
  \/ AddEdge
  \/ RemoveEdge
  \/ Translate
  \/ Rotate
  \/ ConstrainToCircle
  \/ ConstrainToBBox
  \/ Subdivide
  \/ Fixup
  \/ Extend

SpecFlag == InitFlag /\ [][NextFlag]_vars

\* C16: a half-edge whose constrained flag is set keeps it set through every
\* operation: split, translate, rotate, constrain, add_edge, remove_edge,
\* subdivide and fixup.
C16_ConstrainedMonotonic ==
  [][\A e \in HalfEdgeIds(heap) : heap.he[e].constrained => heap'.he[e].constrained]_vars

\* A flagged half-edge, and its twin, after an operation other than
\* setConstrained acted on the heap that held them.
C16_Witness ==
  /\ ret.op \notin {"init", "setConstrained"}
  /\ heap # pre
  /\ pre.he[1].constrained /\ pre.he[2].constrained
  /\ heap.he[1].constrained /\ heap.he[2].constrained

\* ------------------------------------------------------------------------
\* The read-only queries (SpecQuery)
\* ------------------------------------------------------------------------

\* HalfEdge.getVertices(): (origin, twin.origin), or (origin, None) without
\* a twin.
getVertices(H, e) ==
  IF H.he[e].twin = None THEN <<H.he[e].origin, None>>
  ELSE <<H.he[e].origin, H.he[H.he[e].twin].origin>>

\* Face.getEdges(): a copy of the boundary list.
getEdges(H, f) == H.fc[f].edgeList

\* e.getVertices().
GetVertices ==
  /\ steps < MaxSteps
  /\ \E e \in HalfEdgeIds(heap) :
       Returns(heap, Call("getVertices", e, None, P00, FALSE, NoCandidates,
                          getVertices(heap, e)[1], getVertices(heap, e)[2], "", FALSE))

\* e.toArray(); the record keeps the two rows in pt.
ToArray ==
  /\ steps < MaxSteps
  /\ \E e \in HalfEdgeIds(heap) :
    /\ ~isInfinite(heap, e)
    /\ Returns(heap, Call("toArray", e, None, toArray(heap, e), FALSE, NoCandidates,
                          None, None, "", FALSE))

\* f.getEdges(); the record keeps the list in pt.
GetEdges ==
  /\ steps < MaxSteps
  /\ \E f \in FaceIds(heap) :
       Returns(heap, Call("getEdges", f, None, getEdges(heap, f), FALSE, NoCandidates,
                          None, None, "", FALSE))

\* f.getCentroid(); the record keeps the centre returned in pt.
GetCentroid ==
  /\ steps < MaxSteps
  /\ \E f \in FaceIds(heap) :
    /\ FullFace(heap, f) /\ HasCentre(heap, f)
    /\ Returns(getCentroid(heap, f),
               Call("getCentroid", f, None, centroid(heap, f), FALSE, NoCandidates,
                    None, None, "", FALSE))

InitQuery ==
  /\ heap \in FaceScenes
  /\ pre = heap
  /\ ret = NoCall
  /\ steps = 0

NextQuery ==
  \/ GetVertices
  \/ ToArray
  \/ GetEdges
  \/ GetCentroid
  \/ Translate

SpecQuery == InitQuery /\ [][NextQuery]_vars

Queries == {"getVertices", "toArray", "getEdges", "getCentroid"}

\* C17: getVertices, toArray, getEdges and getCentroid change nothing, a
\* face without a site has none after getCentroid, and getCentroid on a face
\* created without a site (every face of the scenes is) returns the average
\* of the boundary origins as they are at the call.
C17_QueriesPure ==
  /\ ret.op \in Queries => heap = pre
  /\ ret.op = "getCentroid" => ret.pt = avgCentroid(pre, ret.self)

\* ------------------------------------------------------------------------
\* addVertex and clearVertices (SpecVertices)
\* ------------------------------------------------------------------------

InitVertices ==
  /\ heap \in {SceneTwins, SceneEdge, SceneDual, SceneChain}
  /\ pre = heap
  /\ ret = NoCall
  /\ steps = 0

NextVertices ==
  \/ AddVertex
  \/ ClearVertices
  \/ ReplaceVertex
  \/ NewVertex

SpecVertices == InitVertices /\ [][NextVertices]_vars

\* Both ends of the full edge of e are set in H.
BothEndsSet(H, e) ==
  IF H.he[e].origin = None \/ H.he[e].twin = None THEN FALSE
  ELSE H.he[H.he[e].twin].origin # None

\* The origins of all half-edges and the incidence sets of all vertices.
OriginsAndIncidence(H) ==
  <<[e \in HalfEdgeIds(H) |-> H.he[e].origin], [v \in VertexIds(H) |-> H.vt[v].halfEdges]>>

\* C18: addVertex fills the first free slot of the full edge, the
\* half-edge's own origin before the twin's, and registers the half-edge of
\* that slot with the vertex; on an edge with both ends set it raises and
\* leaves all origins and incidence sets as they were; clearVertices on an
\* edge with a twin leaves both origins none and both half-edges out of the
\* incidence sets of the vertices they were on.
C18_AddClearVertices ==
  /\ (ret.op = "addVertex" /\ ret.tag # "ERROR") =>
       IF pre.he[ret.self].origin = None
       THEN /\ heap.he[ret.self].origin = ret.arg
            /\ ret.self \in heap.vt[ret.arg].halfEdges
            /\ \A x \in HalfEdgeIds(pre) \ {ret.self} : heap.he[x].origin = pre.he[x].origin
       ELSE /\ pre.he[pre.he[ret.self].twin].origin = None
            /\ heap.he[pre.he[ret.self].twin].origin = ret.arg
            /\ pre.he[ret.self].twin \in heap.vt[ret.arg].halfEdges
            /\ \A x \in HalfEdgeIds(pre) \ {pre.he[ret.self].twin} :
                 heap.he[x].origin = pre.he[x].origin
  /\ (ret.op = "addVertex" /\ BothEndsSet(pre, ret.self)) =>
       /\ ret.tag = "ERROR"
       /\ OriginsAndIncidence(heap) = OriginsAndIncidence(pre)
  /\ (ret.op = "clearVertices" /\ pre.he[ret.self].twin # None) =>
       /\ heap.he[ret.self].origin = None
       /\ heap.he[pre.he[ret.self].twin].origin = None
       /\ pre.he[ret.self].origin # None =>
            ret.self \notin heap.vt[pre.he[ret.self].origin].halfEdges
       /\ pre.he[pre.he[ret.self].twin].origin # None =>
            pre.he[ret.self].twin \notin heap.vt[pre.he[pre.he[ret.self].twin].origin].halfEdges

\* addVertex filled the second slot of an edge whose own origin was taken.
C18_Witness ==
  /\ ret.op = "addVertex"
  /\ ret.tag # "ERROR"
  /\ pre.he[ret.self].origin # None
  /\ BothEndsSet(heap, ret.self)

\* ------------------------------------------------------------------------
\* swapFaces (SpecSwap)
\* ------------------------------------------------------------------------

InitSwap ==
  /\ heap \in {SceneFaceSwap, SceneFaceOne, SceneChain}
  /\ pre = heap
  /\ ret = NoCall
  /\ steps = 0

NextSwap ==
  \/ SwapFaces
  \/ AddEdge
  \/ RemoveEdge

SpecSwap == InitSwap /\ [][NextSwap]_vars

\* The faces of half-edge e and of its twin in H.
FacePair(H, e) == <<H.he[e].face, H.he[H.he[e].twin].face>>

\* C19: e.swapFaces() exchanges the faces of e and its twin, the twin's face
\* possibly none, whether or not the boundary lists held the half-edges; a
\* second e.swapFaces() is accepted and restores the faces both had.
C19_SwapExchanges ==
  ret.op = "swapFaces" =>
    /\ FacePair(heap, ret.self) = <<FacePair(pre, ret.self)[2], FacePair(pre, ret.self)[1]>>
    /\ swapFaces_ok(heap, ret.self)
    /\ FacePair(swapFaces(heap, ret.self), ret.self) = FacePair(pre, ret.self)

\* ------------------------------------------------------------------------
\* extend (SpecExtend)
\* ------------------------------------------------------------------------

InitExtend ==
  /\ heap \in {SceneEdge, SceneChain}
  /\ pre = heap
  /\ ret = NoCall
  /\ steps = 0

NextExtend ==
  \/ Extend
  \/ RemoveEdge

SpecExtend == InitExtend /\ [][NextExtend]_vars

\* The last call was an extend that returned.
Extended == ret.op = "extend" /\ ret.tag = "MODIFIED"

\* What the claim says of n = e.extend(...) in heap H.
AttachedAfter(H, e, n) ==
  /\ H.he[n].origin = H.he[H.he[e].twin].origin
  /\ H.he[n].prev = e
  /\ H.he[e].next = n
  /\ H.he[H.he[n].twin].next = H.he[e].twin
  /\ H.he[n].face # None /\ H.he[n].face = H.he[e].face
  /\ H.he[H.he[n].twin].face # None
  /\ H.he[H.he[n].twin].face = H.he[H.he[e].twin].face

\* C20 as stated: for every full edge e, n = e.extend(...) starts at the
\* far end of e, follows e (n.prev = e, e.next = n), its twin precedes the
\* twin of e, n has the face of e and n.twin the face of e.twin, none null.
C20_ExtendAttaches == Extended => AttachedAfter(heap, ret.self, ret.result)

\* The far end of e has no registered half-edge but the twin of e, and e is
\* the twin of its twin.
Dangling(H, e) ==
  /\ H.he[e].twin # None
  /\ H.he[H.he[e].twin].twin = e
  /\ H.he[H.he[e].twin].origin # None
  /\ H.vt[H.he[H.he[e].twin].origin].halfEdges = {H.he[e].twin}

\* C20, amended: when the far end of the full edge e carries no other
\* half-edge than e.twin, n = e.extend(...) starts at the far end of e,
\* n.prev = e, e.next = n, n.twin.next = e.twin, n has the face of e and
\* n.twin the face of e.twin, none of them null.
C20_ExtendAttachesDangling ==
  (Extended /\ Dangling(pre, ret.self)) => AttachedAfter(heap, ret.self, ret.result)

\* An extension of a face-less edge at a dangling end returned, and made the
\* faces of both sides.
C20_Witness ==
  /\ Extended
  /\ Dangling(pre, ret.self)
  /\ pre.he[ret.self].face = None
  /\ heap.he[ret.result].prev = ret.self
  /\ heap.he[ret.result].face # None

\* ------------------------------------------------------------------------
\* split_by_ratio (SpecRatio)
\* ------------------------------------------------------------------------

\* Ratios in halves: -1, 0, 0.5, 1, 1.5 and 2.
Ratios == {-2, 0, 1, 2, 3, 4}

\* (newPoint, newEdge) = e.split_by_ratio(r=r2/2, face_update=fu).
SplitByRatio ==
  /\ steps < MaxSteps
  /\ Len(heap.he) + 2 <= MaxHalfEdges
  /\ Len(heap.vt) < MaxVertices
  /\ \E e \in HalfEdgeIds(heap), r2 \in Ratios, fu \in BOOLEAN :
       /\ split_ok(heap, e)
       /\ sample_on_grid(toArray(heap, e), r2)
       /\ \E o \in {split_by_ratio_r(heap, e, r2, fu)} :
            Returns(o.H, Call("split_by_ratio", e, r2, P00, fu, NoCandidates,
                              o.result, split_newEdge(heap), o.tag, FALSE))

InitRatio ==
  /\ heap \in {SceneEdge, SceneDual, SceneChain}
  /\ pre = heap
  /\ ret = NoCall
  /\ steps = 0

NextRatio ==
  \/ SplitByRatio
  \/ ReplaceVertex

SpecRatio == InitRatio /\ [][NextRatio]_vars

\* The vertices, the origins, twins and links of the half-edges of H.
Skeleton(H) ==
  [vt |-> H.vt,
   he |-> [e \in 1..Len(H.he) |->
             <<H.he[e].origin, H.he[e].twin, H.he[e].next, H.he[e].prev>>]]

\* C21: split_by_ratio with a ratio below 0 or above 1 raises and creates no
\* vertex or half-edge and changes no origin, incidence set or next/prev
\* link; with ratio 0.5 on the edge (0,0)->(1,0) (here (0,0)->(2,0)) the
\* twin then starts at the midpoint and the new edge runs from the midpoint
\* to the old end.
C21_RatioInRange ==
  ret.op = "split_by_ratio" =>
    /\ (ret.arg < 0 \/ ret.arg > 2) =>
         (ret.tag = "ERROR" /\ Skeleton(heap) = Skeleton(pre))
    /\ (ret.arg = 1 /\ toArray(pre, ret.self) = <<P00, P20>>) =>
         /\ heap.vt[heap.he[heap.he[ret.self].twin].origin].loc = <<1, 0>>
         /\ toArray(heap, ret.result2) = <<<<1, 0>>, P20>>

\* ------------------------------------------------------------------------
\* subdivide and merge_faces (SpecMerge)
\* ------------------------------------------------------------------------

\* (newFace, discarded) = Face.merge_faces(f1, f2).  After a subdivision
\* that returned (f1, f2), pre stays the heap before the subdivision and the
\* flag of the call is set: the round trip is compared with the face that was
\* subdivided.
MergeFaces ==
  /\ steps < MaxSteps
  /\ \E f1, f2 \in FaceIds(heap) :
       /\ \A f \in {f1, f2} : FullFace(heap, f)
       /\ hull_defined(heap, merge_vertices(heap, <<f1, f2>>))
       /\ \E hull \in hull_orders(heap, merge_vertices(heap, <<f1, f2>>)) :
          \E o \in {merge_faces(heap, <<f1, f2>>, hull)} :
            /\ WithinCaps(o.H)
            /\ heap' = o.H
            /\ pre' = IF ret.op = "subdivide" /\ ret.tag = "MODIFIED"
                         /\ <<f1, f2>> = <<ret.self, ret.result>>
                      THEN pre ELSE heap
            /\ ret' = Call("merge_faces", f1, f2, P00, FALSE, NoCandidates, o.result,
                           o.discarded, o.tag,
                           ret.op = "subdivide" /\ ret.tag = "MODIFIED"
                             /\ <<f1, f2>> = <<ret.self, ret.result>>)
            /\ steps' = steps + 1

InitMerge ==
  /\ heap \in {SceneSquare, SceneChain}
  /\ pre = heap
  /\ ret = NoCall
  /\ steps = 0

NextMerge ==
  \/ Subdivide
  \/ MergeFaces
  \/ Split

SpecMerge == InitMerge /\ [][NextMerge]_vars

\* The last call merged the two faces a subdivision had just returned;
\* ret.self is the face that was subdivided, pre the heap before.
RoundTrip == ret.op = "merge_faces" /\ ret.flag

\* C22: after (F1, F2) = F.subdivide(...) on a convex face F, the face
\* merge_faces(F1, F2) returns has as its boundary vertices the corners of
\* the convex hull of F as it was, and the discarded list holds the other
\* vertices of F1 and F2.
C22_SubdivideMergeRoundTrip ==
  RoundTrip =>
    /\ get_all_vertices(heap, ret.result)
         = hull_vertices(pre, get_all_vertices(pre, ret.self))
    /\ ret.result2
         = (get_all_vertices(heap, ret.self) \cup get_all_vertices(heap, ret.arg))
             \ hull_vertices(pre, get_all_vertices(pre, ret.self))

\* The two halves of the square were merged: the four corners bound the new
\* face, the two vertices of the dividing edge are discarded.
C22_Witness ==
  /\ RoundTrip
  /\ Cardinality(get_all_vertices(heap, ret.result)) = 4
  /\ Cardinality(ret.result2) = 2

\* ------------------------------------------------------------------------
\* The crossings of the probe of subdivide (SpecFaces)
\* ------------------------------------------------------------------------

\* The heap f.subdivide(edge) searches for the opposite edge in: H after
\* sort_edges and the split of edge.
Probed(H, f, edge) == split_by_ratio(sort_edges(H, f).H, edge, TRUE)

\* The probe of subdivide in the heap H1 it searches: from the new point,
\* along the normal of edge.
Probe(H1, edge) ==
  <<H1.vt[Len(H1.vt)].loc,
    extend_line(H1.vt[Len(H1.vt)].loc,
                get_bisector(toArray(H1, edge)[1], toArray(H1, edge)[2]),
                ProbeLength)>>

\* The boundary half-edges of f, other than edge and the half split off
\* edge, that the probe of f.subdivide(edge) can meet in H.
Others(H, f, edge) ==
  Range(Probed(H, f, edge).fc[f].edgeList) \ {edge, Len(H.he) + 1}

\* Those of them that the probe crosses.
Crossed(H, f, edge) ==
  {he \in Others(H, f, edge) :
     intersect(Probe(Probed(H, f, edge), edge), toArray(Probed(H, f, edge), he)) # <<>>}

\* The last call was a subdivide that got as far as the search for the
\* opposite edge, and its probe meets no half-edge at an end.
SubdivideProbed ==
  /\ ret.op = "subdivide"
  /\ sort_edges(pre, ret.self).tag = "MODIFIED"
  /\ InList(ret.arg, sort_edges(pre, ret.self).H.fc[ret.self].edgeList)
  /\ \A he \in Others(pre, ret.self, ret.arg) :
       probe_on_grid(Probe(Probed(pre, ret.self, ret.arg), ret.arg),
                     toArray(Probed(pre, ret.self, ret.arg), he))

\* C24: subdivide raises when its probe crosses none or more than one of the
\* other boundary half-edges.
C24_OneCrossingOrError ==
  (SubdivideProbed /\ Cardinality(Crossed(pre, ret.self, ret.arg)) # 1)
    => ret.tag = "ERROR"

\* ------------------------------------------------------------------------
\* The two boundary lists after subdivide (SpecFaces)
\* ------------------------------------------------------------------------

\* The last call was a subdivide that returned; ret.self is the face
\* subdivided, ret.result the new face.
Subdivided == ret.op = "subdivide" /\ ret.tag = "MODIFIED"

\* Following next from e in H comes back to e, through exactly the
\* half-edges of the set es.
LoopOf(H, e, es) ==
  IF H.he[e].next = None THEN FALSE
  ELSE /\ walk(H, H.he[e].next, e, <<>>).ok
       /\ Range(walk(H, H.he[e].next, e, <<>>).list) = es

\* The boundary list of face f in H is a loop of next links, each of its
\* half-edges with f as its face.
ListIsLoop(H, f) ==
  \A e \in Range(H.fc[f].edgeList) :
    H.he[e].face = f /\ LoopOf(H, e, Range(H.fc[f].edgeList))

\* C23: after (F, G) = F.subdivide(edge) the boundary lists of F and G are
\* disjoint; together they hold the boundary half-edges F had, the two
\* half-edges split off, the dividing half-edge (in F) and its twin (in G);
\* every half-edge of a list has that face, and following next from it
\* visits exactly the list and returns.
C23_SubdividePartition ==
  Subdivided =>
    /\ Range(heap.fc[ret.self].edgeList) \cap Range(heap.fc[ret.result].edgeList) = {}
    /\ Range(heap.fc[ret.self].edgeList) \cup Range(heap.fc[ret.result].edgeList)
         = Range(pre.fc[ret.self].edgeList)
             \cup {Len(pre.he) + 1, Len(pre.he) + 3, Len(pre.he) + 5, Len(pre.he) + 6}
    /\ Len(pre.he) + 5 \in Range(heap.fc[ret.self].edgeList)
    /\ Len(pre.he) + 6 \in Range(heap.fc[ret.result].edgeList)
    /\ ListIsLoop(heap, ret.self)
    /\ ListIsLoop(heap, ret.result)

\* ------------------------------------------------------------------------
\* The cached squared length (SpecLength)
\* ------------------------------------------------------------------------

\* e.getLength_sq(force=force).
GetLengthSq ==
  /\ steps < MaxSteps
  /\ \E e \in HalfEdgeIds(heap), force \in BOOLEAN :
       /\ split_ok(heap, e)
       /\ \E h \in {getLength_sq(heap, e, force)} :
            Returns(h, Call("getLength_sq", e, h.he[e].length_sq, P00, force, NoCandidates,
                            None, None, "", FALSE))

\* The scenes, after e.getLength_sq() on the first edge and its twin.
InitLength ==
  /\ heap \in {getLength_sq(getLength_sq(S, 1, FALSE), 2, FALSE) :
                 S \in {SceneEdge, SceneDual, SceneChain}}
  /\ pre = heap
  /\ ret = NoCall
  /\ steps = 0

NextLength ==
  \/ GetLengthSq
  \/ Split
  \/ ReplaceVertex
  \/ Translate
  \/ Rotate
  \/ ConstrainToCircle
  \/ ConstrainToBBox

SpecLength == InitLength /\ [][NextLength]_vars

\* C26: a cached squared length that is set (not -1) is the squared distance
\* between the places of the origin and of the twin's origin, in every state
\* reached through getLength_sq, split, translate, rotate, the constrain
\* calls and replaceVertex.
C26_CachedLengthValid ==
  \A e \in HalfEdgeIds(heap) :
    (split_ok(heap, e) /\ heap.he[e].length_sq # -1)
      => heap.he[e].length_sq = get_distance_raw(toArray(heap, e)[1], toArray(heap, e)[2])

\* ------------------------------------------------------------------------
\* The cached coordinate list of a face (SpecCoords)
\* ------------------------------------------------------------------------

\* coords = f.get_all_coords().
GetAllCoords ==
  /\ steps < MaxSteps
  /\ \E f \in FaceIds(heap) :
       /\ FullFace(heap, f)
       /\ heap.fc[f].coord_list = NoCoords => hull_defined(heap, get_all_vertices(heap, f))
       /\ \E h \in {get_all_coords(heap, f)} :
            Returns(h, Call("get_all_coords", f, None, P00, FALSE, NoCandidates,
                            None, h.fc[f].coord_list, "", FALSE))

\* f.add_vertex(v).
AddFreeVertex ==
  /\ steps < MaxSteps
  /\ \E f \in FaceIds(heap), v \in VertexIds(heap) :
       Returns(add_vertex(heap, f, v),
               Call("add_vertex", f, v, P00, FALSE, NoCandidates, None, None, "", FALSE))

\* The scenes, and the square after f.get_all_coords().
InitCoords ==
  /\ heap \in {SceneChain, SceneSquare, get_all_coords(SceneSquare, 1)}
  /\ pre = heap
  /\ ret = NoCall
  /\ steps = 0

NextCoords ==
  \/ GetAllCoords
  \/ AddFreeVertex
  \/ AddEdge
  \/ RemoveEdge
  \/ Subdivide
  \/ Fixup
  \/ ConstrainFaceToCircle
  \/ ConstrainFaceToBBox

SpecCoords == InitCoords /\ [][NextCoords]_vars

\* The boundary list or the free vertices of face f differ between G and H.
FaceChanged(G, H, f) ==
  \/ G.fc[f].edgeList # H.fc[f].edgeList
  \/ G.fc[f].free_vertices # H.fc[f].free_vertices

\* C27: after a call that changed the boundary list or the free vertices of
\* a face, the cached coordinate list of the face is cleared.
C27_CoordCacheCleared ==
  \A f \in FaceIds(pre) \cap FaceIds(heap) :
    FaceChanged(pre, heap, f) => heap.fc[f].coord_list = NoCoords

\* ------------------------------------------------------------------------
\* What sort_edges returns (SpecFaces)
\* ------------------------------------------------------------------------

\* The last call was a sort_edges that returned.
Sorted == ret.op = "sort_edges" /\ ret.tag = "MODIFIED"

\* Every item of the boundary list of f is counter-clockwise about centre.
AllCcw(H, f, centre) ==
  \A i \in 1..Len(H.fc[f].edgeList) : he_ccw(H, H.fc[f].edgeList[i], centre)

\* The boundary list of f is in order of the angle of the origins about
\* centre.
InAngleOrder(H, f, centre) ==
  \A i, j \in 1..Len(H.fc[f].edgeList) :
    i < j => deg_leq(Scaled(H.vt[H.he[H.fc[f].edgeList[i]].origin].loc, centre),
                     Scaled(H.vt[H.he[H.fc[f].edgeList[j]].origin].loc, centre))

\* C28: when sort_edges returns, every half-edge of the boundary list is
\* counter-clockwise about the centroid of the face and the list is in
\* increasing order of origin angle about it.
C28_SortedCcw ==
  Sorted => /\ AllCcw(heap, ret.self, centroid(pre, ret.self))
            /\ InAngleOrder(heap, ret.self, centroid(pre, ret.self))

\* ------------------------------------------------------------------------
\* Face.rotate in place on a closed loop (SpecEdit)
\* ------------------------------------------------------------------------

\* The boundary list of f is a closed loop: the far end of each half-edge is
\* the origin of the one after it, around to the first, and no vertex is
\* the origin of two of them.
ClosedLoop(H, f) ==
  LET s == H.fc[f].edgeList
  IN /\ Len(s) >= 3
     /\ \A i \in 1..Len(s) :
          H.he[H.he[s[i]].twin].origin = H.he[s[(i % Len(s)) + 1]].origin
     /\ \A i, j \in 1..Len(s) : i # j => H.he[s[i]].origin # H.he[s[j]].origin

\* The last call was f.rotate(rads, target) in place on a closed loop.
RotatedInPlace ==
  /\ ret.op = "Face.rotate"
  /\ ret.tag = "MODIFIED"
  /\ ClosedLoop(pre, ret.self)

\* C29: Face.rotate in place on a closed boundary loop leaves every vertex
\* of the face where one rotation by rads about target takes it.
C29_RotatedOnce ==
  RotatedInPlace =>
    \A v \in get_all_vertices(pre, ret.self) :
      heap.vt[v].loc = rotatePoint(pre.vt[v].loc, ret.pt, ret.arg)

\* ------------------------------------------------------------------------
\* The clone Face.copy makes for cut_out (SpecCopy)
\* ------------------------------------------------------------------------

\* The square face with a second face on the other side of its boundary:
\* g = dc.newFace(); g.add_edges of the four twins.
SceneInner ==
  Bind(newFace(SceneSquare), LAMBDA H1 : add_edges(H1, 2, <<2, 8, 6, 4>>, 1))

InitCopy ==
  /\ heap \in {SceneChain, SceneSquare, SceneInner}
  /\ pre = heap
  /\ ret = NoCall
  /\ steps = 0

NextCopy ==
  \/ HasConstraints
  \/ FaceCutOut
  \/ FaceTranslateEdge
  \/ FaceScale
  \/ FaceRotate

SpecCopy == InitCopy /\ [][NextCopy]_vars

\* The last call was a cut_out of a closed loop that returned a clone.
CutOutClone ==
  /\ ret.op = "Face.cut_out"
  /\ ret.tag = "NEW"
  /\ ClosedLoop(pre, ret.self)

\* Face g of H has as many boundary half-edges as face f of G, and none of
\* its half-edges or vertices is an entity of G.
FreshCopy(G, f, H, g) ==
  /\ Len(H.fc[g].edgeList) = Len(G.fc[f].edgeList)
  /\ Range(H.fc[g].edgeList) \cap HalfEdgeIds(G) = {}
  /\ get_all_vertices(H, g) \cap VertexIds(G) = {}

\* The boundary list of g is linked by next and prev into one cycle.
LinkedLoop(H, g) ==
  LET s == H.fc[g].edgeList
  IN \A i \in 1..Len(s) :
       /\ H.he[s[i]].next = s[(i % Len(s)) + 1]
       /\ H.he[s[(i % Len(s)) + 1]].prev = s[i]

\* C30: the clone cut_out returns for a closed loop has as many boundary
\* half-edges as the original, shares no half-edge or vertex with it, and
\* its boundary is a closed loop: consecutive half-edges share one vertex
\* and are linked by next and prev.
C30_CloneWellFormed ==
  CutOutClone =>
    /\ FreshCopy(pre, ret.self, heap, ret.result)
    /\ ClosedLoop(heap, ret.result)
    /\ LinkedLoop(heap, ret.result)
====
